---- MODULE Spec2Model ----
(***************************************************************************)
(* A model of tilo, a terminal log viewer: the viewer state machine of     *)
(* internal/ui (cursor, scroll, wrap, selection, search, follow), the main *)
(* loop of ui.Run with its hand-off channel, the tailing producer of       *)
(* cmd/tilo and the rule engine of internal/color.                         *)
(*                                                                         *)
(* A line is a sequence of runes, a rune a one-character string.  Columns  *)
(* and line indices are 0-based as in the source; Lines[i+1] is line i.    *)
(***************************************************************************)
EXTENDS Integers, Sequences, FiniteSets, TLC

VARIABLES
    v,          \* the Viewer struct
    dirty,      \* Run: the redraw flag
    pc,         \* Run: position of the main loop
    followCh,   \* the hand-off channel of tailFile, a FIFO of batches
    clipboard,  \* what the last command handed to clipboard.WriteAll, if anything
    term,       \* terminal geometry reported by term.GetSize
    lastOp,     \* the operation the loop applied last
    iter,       \* Run: batches drained in this iteration; redrawn since the last batch
    tail,       \* tailFile: the followed file and the producer goroutine
    eng         \* ApplyRules: inputs, loop position and accumulated spans

vars == <<v, dirty, pc, followCh, clipboard, term, lastOp, iter, tail, eng>>

-----------------------------------------------------------------------------
(* Bounds of the model                                                     *)

MaxLines == 3       \* the line store grows to at most this many lines
MaxWrites == 5      \* bytes written to the followed file in one behaviour
MaxBatches == 18    \* lines the writer of the loop model appends
MaxRuleLine == 4    \* bytes of a line given to the rule engine
MaxRules == 3       \* rules in a rule list

(* Program constants                                                       *)

ChanCap == 16       \* make(chan []string, 16)

-----------------------------------------------------------------------------
(* Integers, sequences, runes                                              *)

Min(a, b) == IF a < b THEN a ELSE b
Max(a, b) == IF a > b THEN a ELSE b

\* s[from:to] of Go, 0-based, half open
Slice(s, from, to) == SubSeq(s, from + 1, to)

RECURSIVE Flatten(_, _)
\* strings.Join(parts, sep) for sequences of runes
Flatten(parts, sep) ==
    IF Len(parts) = 0 THEN <<>>
    ELSE IF Len(parts) = 1 THEN parts[1]
    ELSE parts[1] \o sep \o Flatten(Tail(parts), sep)

NL == "\n"
CR == "\r"

\* unicode.IsLetter / IsDigit / '_' on the runes of the model
isWordRune(r) == r \in {"a", "b", "A", "B", "_", "U+023A", "U+2C65"}

\* unicode.ToLower on the runes of the model
toLowerRune(r) ==
    IF r = "A" THEN "a" ELSE IF r = "B" THEN "b" ELSE IF r = "U+023A" THEN "U+2C65" ELSE r

\* utf8.RuneLen: the runes of the model are ASCII but for U+023A (2 bytes) and its
\* lower case U+2C65 (3 bytes)
utf8Len(r) == IF r = "U+023A" THEN 2 ELSE IF r = "U+2C65" THEN 3 ELSE 1

RECURSIVE ByteLen(_)
\* len(s) of a Go string: its bytes
ByteLen(s) == IF Len(s) = 0 THEN 0 ELSE utf8Len(s[1]) + ByteLen(Tail(s))

RECURSIVE RuneCountPrefix(_, _)
\* utf8.RuneCountInString(s[:n]) for n <= len(s): the runes that end within the first
\* n bytes, and one for every byte of a rune that s[:n] cuts
RuneCountPrefix(s, n) ==
    IF n <= 0 \/ Len(s) = 0 THEN 0
    ELSE IF utf8Len(s[1]) <= n THEN 1 + RuneCountPrefix(Tail(s), n - utf8Len(s[1]))
    ELSE n

\* strings.ToLower
ToLower(s) == [i \in 1..Len(s) |-> toLowerRune(s[i])]

isSpaceRune(r) == r \in {" ", NL, CR}

RECURSIVE TrimLeft(_)
TrimLeft(s) == IF Len(s) > 0 /\ isSpaceRune(s[1]) THEN TrimLeft(Tail(s)) ELSE s

RECURSIVE TrimRight(_)
TrimRight(s) ==
    IF Len(s) > 0 /\ isSpaceRune(s[Len(s)]) THEN TrimRight(SubSeq(s, 1, Len(s) - 1)) ELSE s

\* strings.TrimSpace
TrimSpace(s) == TrimRight(TrimLeft(s))

\* strings.TrimSuffix(s, suffix) for a one-rune suffix
TrimSuffix(s, r) ==
    IF Len(s) > 0 /\ s[Len(s)] = r THEN SubSeq(s, 1, Len(s) - 1) ELSE s

HasPrefixAt(s, sub, i) ==
    /\ i + Len(sub) <= Len(s)
    /\ \A k \in 1..Len(sub) : s[i + k] = sub[k]

\* strings.Index(s[from:], sub) + from, or -1: first occurrence at or after from
IndexFrom(s, sub, from) ==
    LET hits == {i \in from..(Len(s) - Len(sub)) : HasPrefixAt(s, sub, i)}
    IN IF hits = {} THEN -1 ELSE CHOOSE i \in hits : \A j \in hits : i <= j

\* strings.Index
Index(s, sub) == IndexFrom(s, sub, 0)

\* strings.Contains
Contains(s, sub) == Index(s, sub) # -1

RECURSIVE NumDigits(_)
\* len(fmt.Sprintf("%d", n)) for n >= 0
NumDigits(n) == IF n < 10 THEN 1 ELSE 1 + NumDigits(n \div 10)

-----------------------------------------------------------------------------
(* Viewer: types                                                           *)

SelectNone == "SelectNone"
SelectChar == "SelectChar"
SelectLine == "SelectLine"
SelectBlock == "SelectBlock"

\* a nil *Position
NilPos == [Line |-> -1, Col |-> -1]

Position(line, col) == [Line |-> line, Col |-> col]

posRange(start, end) == [start |-> start, end |-> end]

\* &Viewer{Lines: lines, LineNumbers: lineNumbers, Follow: follow}
NewViewer(lines, lineNumbers, follow) ==
    [Lines |-> lines, Cursor |-> 0, CursorCol |-> 0, GoalCol |-> 0,
     Top |-> 0, TopSub |-> 0, Query |-> <<>>, Matches |-> <<>>, MatchIndex |-> 0,
     SelectStart |-> NilPos, SelectMode |-> SelectNone, Status |-> "",
     LineNumbers |-> lineNumbers, Wrap |-> FALSE, HOffset |-> 0,
     Follow |-> follow, InPrompt |-> FALSE]

-----------------------------------------------------------------------------
(* Viewer: geometry                                                        *)

lineNumberWidth(s) == IF Len(s.Lines) = 0 THEN 1 ELSE NumDigits(Len(s.Lines))

lineRuneCount(s, idx) ==
    IF idx < 0 \/ idx >= Len(s.Lines) THEN 0 ELSE Len(s.Lines[idx + 1])

contentWidth(s, totalWidth) ==
    LET w == IF s.LineNumbers THEN totalWidth - (lineNumberWidth(s) + 1) ELSE totalWidth
    IN IF w < 1 THEN 1 ELSE w

lineSegmentCount(s, idx, width) ==
    LET w == IF width < 1 THEN 1 ELSE width
        count == lineRuneCount(s, idx)
    IN IF ~s.Wrap THEN 1
       ELSE IF count = 0 THEN 1
       ELSE (count + w - 1) \div w

cursorSegmentIndex(s, width) ==
    IF width < 1 THEN 0
    ELSE IF ~s.Wrap THEN 0
    ELSE s.CursorCol \div width

RECURSIVE SegSum(_, _, _)
\* the loop of globalSegIndex: segments of the lines 0 .. n-1
SegSum(s, n, width) ==
    IF n <= 0 THEN 0 ELSE SegSum(s, n - 1, width) + lineSegmentCount(s, n - 1, width)

globalSegIndex(s, line, seg, width) ==
    SegSum(s, Min(line, Len(s.Lines)), width) + seg

RECURSIVE fromGlobalLoop(_, _, _, _)
fromGlobalLoop(s, line, idx, width) ==
    IF line < Len(s.Lines)
    THEN LET count == lineSegmentCount(s, line, width)
         IN IF idx < count THEN <<line, idx>>
            ELSE fromGlobalLoop(s, line + 1, idx - count, width)
    ELSE IF Len(s.Lines) = 0 THEN <<0, 0>>
    ELSE <<Len(s.Lines) - 1, lineSegmentCount(s, Len(s.Lines) - 1, width) - 1>>

fromGlobalSegIndex(s, idx, width) ==
    IF idx < 0 THEN <<0, 0>> ELSE fromGlobalLoop(s, 0, idx, width)

cursorRow(s, width) ==
    globalSegIndex(s, s.Cursor, cursorSegmentIndex(s, width), width)
        - globalSegIndex(s, s.Top, s.TopSub, width)

\* maxHOffset without the width taken off the line length
maxHOffsetLineLen(s, totalWidth) == lineRuneCount(s, s.Cursor)

maxHOffset(s, totalWidth) ==
    LET m == lineRuneCount(s, s.Cursor) - contentWidth(s, totalWidth)
    IN IF m < 0 THEN 0 ELSE m

-----------------------------------------------------------------------------
(* Viewer: cursor motion                                                   *)

\* clampCursor with the upper column clamp left out
clampCursorNoColClamp(s) ==
    LET c1 == IF s.Cursor < 0 THEN 0 ELSE s.Cursor
        c2 == IF c1 >= Len(s.Lines) THEN Len(s.Lines) - 1 ELSE c1
        c3 == IF Len(s.Lines) = 0 THEN 0 ELSE c2
        col1 == IF s.CursorCol < 0 THEN 0 ELSE s.CursorCol
    IN [s EXCEPT !.Cursor = c3, !.CursorCol = col1]

clampCursor(s) ==
    LET c1 == IF s.Cursor < 0 THEN 0 ELSE s.Cursor
        c2 == IF c1 >= Len(s.Lines) THEN Len(s.Lines) - 1 ELSE c1
        c3 == IF Len(s.Lines) = 0 THEN 0 ELSE c2
        n == IF c3 < 0 \/ c3 >= Len(s.Lines) THEN 0 ELSE Len(s.Lines[c3 + 1])
        maxCol == IF n > 0 THEN n - 1 ELSE n
        col1 == IF s.CursorCol < 0 THEN 0 ELSE s.CursorCol
        col2 == IF col1 > maxCol THEN maxCol ELSE col1
    IN [s EXCEPT !.Cursor = c3, !.CursorCol = col2]

applyGoalCol(s) ==
    LET g == IF s.GoalCol < 0 THEN 0 ELSE s.GoalCol
        n == lineRuneCount(s, s.Cursor)
        maxCol == IF n > 0 THEN n - 1 ELSE n
        col1 == IF g > maxCol THEN maxCol ELSE g
        col2 == IF col1 < 0 THEN 0 ELSE col1
    IN [s EXCEPT !.GoalCol = g, !.CursorCol = col2]

\* a moveCursor that takes the clamped column as the new goal column
moveCursorResetGoal(s, delta) ==
    LET t == applyGoalCol(clampCursor([s EXCEPT !.Cursor = s.Cursor + delta]))
    IN [t EXCEPT !.GoalCol = t.CursorCol, !.Status = ""]

moveCursor(s, delta) ==
    [applyGoalCol(clampCursor([s EXCEPT !.Cursor = s.Cursor + delta])) EXCEPT !.Status = ""]

\* a moveCursorCol that leaves the goal column as it was
moveCursorColKeepGoal(s, delta) ==
    [clampCursor([s EXCEPT !.CursorCol = s.CursorCol + delta]) EXCEPT !.Status = ""]

moveCursorCol(s, delta) ==
    LET t == clampCursor([s EXCEPT !.CursorCol = s.CursorCol + delta])
    IN [t EXCEPT !.GoalCol = t.CursorCol, !.Status = ""]

moveLineStart(s) ==
    LET t == clampCursor([s EXCEPT !.CursorCol = 0])
    IN [t EXCEPT !.GoalCol = t.CursorCol, !.Status = ""]

moveLineEnd(s) ==
    LET n == lineRuneCount(s, s.Cursor)
        maxCol == IF n > 0 THEN n - 1 ELSE n
        t == clampCursor([s EXCEPT !.CursorCol = maxCol])
    IN [t EXCEPT !.GoalCol = t.CursorCol, !.Status = ""]

page(s, delta, height) ==
    LET h == IF height - 2 < 1 THEN 1 ELSE height - 2
    IN applyGoalCol(clampCursor([s EXCEPT !.Cursor = s.Cursor + delta * h]))

cursorTop(s) ==
    [s EXCEPT !.Cursor = 0, !.CursorCol = 0, !.GoalCol = 0, !.Status = ""]

cursorBottom(s) ==
    IF Len(s.Lines) = 0
    THEN [s EXCEPT !.Cursor = 0, !.CursorCol = 0, !.GoalCol = 0]
    ELSE [s EXCEPT !.Cursor = Len(s.Lines) - 1, !.CursorCol = 0, !.GoalCol = 0,
                   !.Status = ""]

\* toggleWrap that also sends the cursor to the start of its line
toggleWrapHome(s) ==
    [s EXCEPT !.Wrap = ~s.Wrap, !.HOffset = 0, !.TopSub = 0, !.CursorCol = 0,
              !.Status = ""]

toggleWrap(s) ==
    [s EXCEPT !.Wrap = ~s.Wrap, !.HOffset = 0, !.TopSub = 0, !.Status = ""]

-----------------------------------------------------------------------------
(* Viewer: word motion                                                     *)

RECURSIVE skipWord(_, _)
\* for pos < len(line) && isWordRune(line[pos]) { pos++ }
skipWord(line, pos) ==
    IF pos < Len(line) /\ isWordRune(line[pos + 1]) THEN skipWord(line, pos + 1) ELSE pos

RECURSIVE skipNonWord(_, _)
\* for pos < len(line) && !isWordRune(line[pos]) { pos++ }
skipNonWord(line, pos) ==
    IF pos < Len(line) /\ ~isWordRune(line[pos + 1]) THEN skipNonWord(line, pos + 1) ELSE pos

RECURSIVE wordStart(_, _)
\* for col > 0 && isWordRune(line[col-1]) { col-- }
wordStart(line, col) ==
    IF col > 0 /\ isWordRune(line[col]) THEN wordStart(line, col - 1) ELSE col

\* the branches that stop at a line boundary: cursor set, clamped, goal column kept
landClamped(s, lineIdx, col) ==
    [clampCursor([s EXCEPT !.Cursor = lineIdx, !.CursorCol = col]) EXCEPT !.Status = ""]

\* the branches that land on a word: cursor set, clamped, goal column reset
landOnWord(s, lineIdx, col) ==
    LET t == clampCursor([s EXCEPT !.Cursor = lineIdx, !.CursorCol = col])
    IN [t EXCEPT !.GoalCol = t.CursorCol, !.Status = ""]

RECURSIVE wordForwardLoop(_, _, _)
wordForwardLoop(s, lineIdx, col0) ==
    LET line == s.Lines[lineIdx + 1]
        isLast == lineIdx + 1 >= Len(s.Lines)
        col == IF col0 < 0 THEN 0 ELSE col0
    IN IF Len(line) = 0
       THEN IF isLast THEN landClamped(s, lineIdx, 0)
            ELSE wordForwardLoop(s, lineIdx + 1, 0)
       ELSE IF col >= Len(line)
       THEN IF isLast THEN landClamped(s, lineIdx, Len(line) - 1)
            ELSE wordForwardLoop(s, lineIdx + 1, 0)
       ELSE LET p1 == IF isWordRune(line[col + 1]) THEN skipWord(line, col) ELSE col
                pos == skipNonWord(line, p1)
            IN IF pos < Len(line) THEN landOnWord(s, lineIdx, pos)
               ELSE IF isLast THEN landClamped(s, lineIdx, Len(line) - 1)
               ELSE wordForwardLoop(s, lineIdx + 1, 0)

\* a word-forward motion that goes on from line 0 when no word follows on the last line
moveWordForwardWrap(s) ==
    IF Len(s.Lines) = 0 THEN s
    ELSE LET line == s.Lines[s.Cursor + 1]
             col == Min(s.CursorCol, Len(line))
         IN IF s.Cursor + 1 >= Len(s.Lines) /\ skipNonWord(line, skipWord(line, col)) >= Len(line)
            THEN wordForwardLoop(s, 0, 0)
            ELSE wordForwardLoop(s, s.Cursor, s.CursorCol)

moveWordForward(s) ==
    IF Len(s.Lines) = 0 THEN s ELSE wordForwardLoop(s, s.Cursor, s.CursorCol)

RECURSIVE wordBackwardSkip(_, _, _)
\* the inner loop of moveWordBackward ("skip non-word runes") and what follows it
wordBackwardSkip(s, lineIdx, col) ==
    IF lineIdx < 0 THEN landClamped(s, 0, 0)
    ELSE LET line == s.Lines[lineIdx + 1]
         IN IF Len(line) = 0 THEN wordBackwardSkip(s, lineIdx - 1, 0)
            ELSE IF col < 0
            THEN IF lineIdx - 1 >= 0
                 THEN wordBackwardSkip(s, lineIdx - 1, Len(s.Lines[lineIdx]) - 1)
                 ELSE landClamped(s, 0, 0)
            ELSE IF isWordRune(line[col + 1])
            THEN landOnWord(s, lineIdx, wordStart(line, col))
            ELSE wordBackwardSkip(s, lineIdx, col - 1)

RECURSIVE wordBackwardLoop(_, _, _)
\* the outer loop of moveWordBackward
wordBackwardLoop(s, lineIdx, col0) ==
    IF lineIdx < 0 THEN landClamped(s, 0, 0)
    ELSE LET line == s.Lines[lineIdx + 1]
             c1 == IF col0 > Len(line) - 1 THEN Len(line) - 1 ELSE col0
             col == IF c1 < 0 THEN Len(line) - 1 ELSE c1
         IN IF Len(line) = 0 THEN wordBackwardLoop(s, lineIdx - 1, 0)
            ELSE IF col = 0
            THEN IF lineIdx - 1 >= 0
                 THEN wordBackwardLoop(s, lineIdx - 1, Len(s.Lines[lineIdx]) - 1)
                 ELSE wordBackwardLoop(s, lineIdx - 1, col)
            ELSE wordBackwardSkip(s, lineIdx, col - 1)

moveWordBackward(s) ==
    IF Len(s.Lines) = 0 THEN s ELSE wordBackwardLoop(s, s.Cursor, s.CursorCol)

RECURSIVE wordEndLoop(_, _, _)
wordEndLoop(s, lineIdx, col0) ==
    LET line == s.Lines[lineIdx + 1]
        isLast == lineIdx + 1 >= Len(s.Lines)
        col == IF col0 < 0 THEN 0 ELSE col0
    IN IF Len(line) = 0
       THEN IF isLast THEN landClamped(s, lineIdx, 0)
            ELSE wordEndLoop(s, lineIdx + 1, 0)
       ELSE IF col >= Len(line)
       THEN IF isLast THEN landClamped(s, lineIdx, Len(line) - 1)
            ELSE wordEndLoop(s, lineIdx + 1, 0)
       ELSE IF isWordRune(line[col + 1])
       THEN landOnWord(s, lineIdx, skipWord(line, col) - 1)
       ELSE LET pos == skipNonWord(line, col)
            IN IF pos < Len(line)
               THEN landClamped(s, lineIdx, skipWord(line, pos) - 1)
               ELSE IF isLast THEN landClamped(s, lineIdx, Len(line) - 1)
               ELSE wordEndLoop(s, lineIdx + 1, 0)

\* a word-end motion that first steps off the rune under the cursor
moveWordEndStepFirst(s) ==
    IF Len(s.Lines) = 0 THEN s ELSE wordEndLoop(s, s.Cursor, s.CursorCol + 1)

moveWordEnd(s) ==
    IF Len(s.Lines) = 0 THEN s ELSE wordEndLoop(s, s.Cursor, s.CursorCol)

-----------------------------------------------------------------------------
(* Viewer: redraw                                                          *)

\* ensureVisible that scrolls up to the cursor but never down to it
ensureVisibleNoScrollDown(s, height, width0, totalWidth) ==
    LET width == IF width0 < 1 THEN 1 ELSE width0
        topGlobal == globalSegIndex(s, s.Top, s.TopSub, width)
        cursorGlobal == globalSegIndex(s, s.Cursor, cursorSegmentIndex(s, width), width)
        t1 == IF cursorGlobal < topGlobal THEN cursorGlobal ELSE topGlobal
        top == fromGlobalSegIndex(s, t1, width)
        h1 == IF s.CursorCol < s.HOffset THEN s.CursorCol ELSE s.HOffset
        h2 == IF s.CursorCol >= h1 + width THEN s.CursorCol - width + 1 ELSE h1
        maxH == maxHOffset(s, totalWidth)
        h3 == IF h2 > maxH THEN maxH ELSE h2
    IN [s EXCEPT !.Top = top[1], !.TopSub = top[2],
                 !.HOffset = IF ~s.Wrap THEN h3 ELSE s.HOffset]

ensureVisible(s, height, width0, totalWidth) ==
    LET width == IF width0 < 1 THEN 1 ELSE width0
        cursorSeg == cursorSegmentIndex(s, width)
        topGlobal == globalSegIndex(s, s.Top, s.TopSub, width)
        cursorGlobal == globalSegIndex(s, s.Cursor, cursorSeg, width)
        t1 == IF cursorGlobal < topGlobal THEN cursorGlobal ELSE topGlobal
        t2 == IF cursorGlobal >= t1 + height THEN cursorGlobal - (height - 1) ELSE t1
        top == fromGlobalSegIndex(s, t2, width)
        h1 == IF s.CursorCol < s.HOffset THEN s.CursorCol ELSE s.HOffset
        h2 == IF s.CursorCol >= h1 + width THEN s.CursorCol - width + 1 ELSE h1
        maxH == maxHOffset(s, totalWidth)
        h3 == IF h2 > maxH THEN maxH ELSE h2
    IN [s EXCEPT !.Top = top[1], !.TopSub = top[2],
                 !.HOffset = IF ~s.Wrap THEN h3 ELSE s.HOffset]

\* the state changes of draw: clampCursor, then ensureVisible
draw(s, width, height) ==
    LET contentHeight == IF height - 1 < 1 THEN 1 ELSE height - 1
    IN ensureVisible(clampCursor(s), contentHeight, contentWidth(s, width), width)

-----------------------------------------------------------------------------
(* Viewer: search                                                          *)

\* idx of matchColForLine: the byte index of the query in the lowered line, or -1
matchByteIndex(line, query) ==
    LET at == Index(ToLower(line), ToLower(query))
    IN IF at = -1 THEN -1 ELSE ByteLen(Slice(ToLower(line), 0, at))

\* line[:idx] of matchColForLine panics: idx, taken in the lowered line, lies beyond
\* the bytes of the line
matchColPanics(s, lineIdx) ==
    /\ lineIdx >= 0
    /\ lineIdx < Len(s.Lines)
    /\ s.Query # <<>>
    /\ matchByteIndex(s.Lines[lineIdx + 1], s.Query) > ByteLen(s.Lines[lineIdx + 1])

matchColForLine(s, lineIdx) ==
    IF lineIdx < 0 \/ lineIdx >= Len(s.Lines) THEN 0
    ELSE IF s.Query = <<>> THEN 0
    ELSE LET idx == matchByteIndex(s.Lines[lineIdx + 1], s.Query)
         IN IF idx = -1 THEN 0 ELSE RuneCountPrefix(s.Lines[lineIdx + 1], idx)

\* a scan that lists the matching lines from the last to the first
scanMatchesDown(lines, lowerQuery, i) ==
    LET hits == SelectSeq([k \in 1..Len(lines) |-> k - 1],
                          LAMBDA k : k >= i /\ Contains(ToLower(lines[k + 1]), lowerQuery))
    IN [j \in 1..Len(hits) |-> hits[Len(hits) + 1 - j]]

RECURSIVE scanMatches(_, _, _)
\* the loop of setQuery over the lines i .. len-1
scanMatches(lines, lowerQuery, i) ==
    IF i >= Len(lines) THEN <<>>
    ELSE (IF Contains(ToLower(lines[i + 1]), lowerQuery) THEN <<i>> ELSE <<>>)
             \o scanMatches(lines, lowerQuery, i + 1)

closestMatchIndex(s, dir) ==
    IF Len(s.Matches) = 0 THEN 0
    ELSE IF dir >= 0
    THEN LET ok == {i \in 0..(Len(s.Matches) - 1) : s.Matches[i + 1] >= s.Cursor}
         IN IF ok = {} THEN 0 ELSE CHOOSE i \in ok : \A j \in ok : i <= j
    ELSE LET ok == {i \in 0..(Len(s.Matches) - 1) : s.Matches[i + 1] <= s.Cursor}
         IN IF ok = {} THEN Len(s.Matches) - 1 ELSE CHOOSE i \in ok : \A j \in ok : i >= j

\* a setQuery that, finding no match, goes back to the top of the document
setQueryRunHome(s, query, dir) ==
    LET q == TrimSpace(query)
        s0 == [s EXCEPT !.Query = q, !.Matches = <<>>, !.MatchIndex = 0]
        s1 == [s0 EXCEPT !.Matches = scanMatches(s.Lines, ToLower(q), 0)]
        s2 == [s1 EXCEPT !.MatchIndex = closestMatchIndex(s1, dir)]
        s3 == [s2 EXCEPT !.Cursor = s2.Matches[s2.MatchIndex + 1]]
        s4 == [s3 EXCEPT !.CursorCol = matchColForLine(s3, s3.Cursor)]
    IN IF q = <<>> THEN [state |-> s0, panics |-> FALSE]
       ELSE IF Len(s1.Matches) = 0
       THEN [state |-> [s1 EXCEPT !.Status = "no matches", !.Cursor = 0,
                                  !.CursorCol = 0, !.GoalCol = 0],
             panics |-> FALSE]
       ELSE IF matchColPanics(s3, s3.Cursor) THEN [state |-> s3, panics |-> TRUE]
       ELSE [state |-> [s4 EXCEPT !.GoalCol = s4.CursorCol, !.Status = ""],
             panics |-> FALSE]

\* setQuery: the state it leaves and, where matchColForLine panics, the state at the
\* panic
setQueryRun(s, query, dir) ==
    LET q == TrimSpace(query)
        s0 == [s EXCEPT !.Query = q, !.Matches = <<>>, !.MatchIndex = 0]
        s1 == [s0 EXCEPT !.Matches = scanMatches(s.Lines, ToLower(q), 0)]
        s2 == [s1 EXCEPT !.MatchIndex = closestMatchIndex(s1, dir)]
        s3 == [s2 EXCEPT !.Cursor = s2.Matches[s2.MatchIndex + 1]]
        s4 == [s3 EXCEPT !.CursorCol = matchColForLine(s3, s3.Cursor)]
    IN IF q = <<>> THEN [state |-> s0, panics |-> FALSE]
       ELSE IF Len(s1.Matches) = 0
       THEN [state |-> [s1 EXCEPT !.Status = "no matches"], panics |-> FALSE]
       ELSE IF matchColPanics(s3, s3.Cursor) THEN [state |-> s3, panics |-> TRUE]
       ELSE [state |-> [s4 EXCEPT !.GoalCol = s4.CursorCol, !.Status = ""],
             panics |-> FALSE]

setQuery(s, query, dir) == setQueryRun(s, query, dir).state

\* nextMatch: the state it leaves and, where matchColForLine panics, the state at the
\* panic
nextMatchRun(s, dir) ==
    IF Len(s.Matches) = 0
    THEN [state |-> [s EXCEPT !.Status = "no matches"], panics |-> FALSE]
    ELSE LET m1 == s.MatchIndex + dir
             m2 == IF m1 < 0 THEN Len(s.Matches) - 1 ELSE m1
             m3 == IF m2 >= Len(s.Matches) THEN 0 ELSE m2
             s1 == [s EXCEPT !.MatchIndex = m3, !.Cursor = s.Matches[m3 + 1]]
             s2 == [s1 EXCEPT !.CursorCol = matchColForLine(s1, s1.Cursor)]
         IN IF matchColPanics(s1, s1.Cursor) THEN [state |-> s1, panics |-> TRUE]
            ELSE [state |-> [s2 EXCEPT !.GoalCol = s2.CursorCol, !.Status = ""],
                  panics |-> FALSE]

nextMatch(s, dir) == nextMatchRun(s, dir).state

\* prompt: what it leaves in the viewer once it has returned
prompt(s) == [s EXCEPT !.Status = "", !.InPrompt = FALSE]

-----------------------------------------------------------------------------
(* Viewer: selection                                                       *)

clearSelection(s) ==
    [s EXCEPT !.SelectMode = SelectNone, !.SelectStart = NilPos,
              !.Status = "selection cleared"]

modeLabel(mode) ==
    CASE mode = SelectChar -> "visual"
      [] mode = SelectLine -> "visual-line"
      [] mode = SelectBlock -> "visual-block"

\* toggleSelect that keeps the old anchor when a selection is already active
toggleSelectKeepAnchor(s, mode) ==
    IF s.SelectMode = mode /\ s.SelectStart # NilPos THEN clearSelection(s)
    ELSE [s EXCEPT !.SelectMode = mode,
                   !.SelectStart = IF s.SelectStart # NilPos THEN s.SelectStart
                                   ELSE Position(s.Cursor, IF mode = SelectBlock
                                                           THEN s.GoalCol ELSE s.CursorCol),
                   !.Status = modeLabel(mode)]

toggleSelect(s, mode) ==
    IF s.SelectMode = mode /\ s.SelectStart # NilPos THEN clearSelection(s)
    ELSE [s EXCEPT !.SelectMode = mode,
                   !.SelectStart = Position(s.Cursor, IF mode = SelectBlock
                                                      THEN s.GoalCol ELSE s.CursorCol),
                   !.Status = modeLabel(mode)]

\* the clipping shared by the block case and the one-line char case
clipRange(minCol0, maxCol0, lineLen) ==
    LET minCol == IF minCol0 < 0 THEN 0 ELSE minCol0
        maxCol == IF maxCol0 >= lineLen THEN lineLen - 1 ELSE maxCol0
    IN IF lineLen = 0 \/ minCol > maxCol THEN <<>>
       ELSE <<posRange(minCol, maxCol + 1)>>

\* the char case without the swap of the two endpoints
charRangesNoSwap(s, lineIdx, start, end, lineLen) ==
    IF start.Line = end.Line
    THEN clipRange(start.Col, end.Col, lineLen)
    ELSE IF lineIdx = start.Line
    THEN IF Max(start.Col, 0) >= lineLen THEN <<>>
         ELSE <<posRange(Max(start.Col, 0), lineLen)>>
    ELSE IF lineIdx = end.Line
    THEN IF lineLen = 0 THEN <<>>
         ELSE <<posRange(0, Min(Max(end.Col, 0), lineLen - 1) + 1)>>
    ELSE <<posRange(0, lineLen)>>

\* case SelectChar of selectionRangesForLine
charRanges(s, lineIdx, start, end, lineLen) ==
    LET swap == start.Line > end.Line \/ (start.Line = end.Line /\ start.Col > end.Col)
        b == IF swap THEN end ELSE start
        e == IF swap THEN start ELSE end
    IN IF b.Line = e.Line
       THEN clipRange(Min(b.Col, e.Col), Max(b.Col, e.Col), lineLen)
       ELSE IF lineIdx = b.Line
       THEN IF Max(b.Col, 0) >= lineLen THEN <<>>
            ELSE <<posRange(Max(b.Col, 0), lineLen)>>
       ELSE IF lineIdx = e.Line
       THEN IF lineLen = 0 THEN <<>>
            ELSE <<posRange(0, Min(Max(e.Col, 0), lineLen - 1) + 1)>>
       ELSE <<posRange(0, lineLen)>>

\* case SelectBlock of selectionRangesForLine
blockRanges(start, end, lineLen) ==
    clipRange(Min(start.Col, end.Col), Max(start.Col, end.Col), lineLen)

selectionRangesForLine(s, lineIdx) ==
    IF s.SelectMode = SelectNone \/ s.SelectStart = NilPos THEN <<>>
    ELSE LET start == s.SelectStart
             end == Position(s.Cursor, IF s.SelectMode = SelectBlock
                                       THEN s.GoalCol ELSE s.CursorCol)
             minLine == Min(start.Line, end.Line)
             maxLine == Max(start.Line, end.Line)
             lineLen == lineRuneCount(s, lineIdx)
         IN IF lineIdx < minLine \/ lineIdx > maxLine THEN <<>>
            ELSE CASE s.SelectMode = SelectLine -> <<posRange(0, lineLen)>>
                   [] s.SelectMode = SelectBlock -> blockRanges(start, end, lineLen)
                   [] s.SelectMode = SelectChar ->
                          charRanges(s, lineIdx, start, end, lineLen)

RECURSIVE copyRanges(_, _)
\* the inner loop of the char case of copySelection
copyRanges(runes, ranges) ==
    IF Len(ranges) = 0 THEN <<>>
    ELSE LET r == ranges[1]
             a == IF r.start < 0 THEN 0 ELSE r.start
             b == IF r.end > Len(runes) THEN Len(runes) ELSE r.end
         IN (IF a >= b THEN <<>> ELSE Slice(runes, a, b)) \o copyRanges(runes, Tail(ranges))

\* case SelectBlock of copySelection, one line
copyBlockLine(runes, minCol, maxCol) ==
    IF Len(runes) = 0 \/ minCol >= Len(runes) THEN <<>>
    ELSE Slice(runes, minCol, (IF maxCol >= Len(runes) THEN Len(runes) - 1 ELSE maxCol) + 1)

\* the pieces copySelection collects in out, one per line of the selection
copyPieces(s) ==
    LET start == s.SelectStart
        end == Position(s.Cursor, s.CursorCol)
        lo == Min(start.Line, end.Line)
        hi == Max(start.Line, end.Line)
        minLine == IF lo < 0 THEN 0 ELSE lo
        maxLine == IF hi >= Len(s.Lines) THEN Len(s.Lines) - 1 ELSE hi
        minCol == Min(start.Col, end.Col)
        maxCol == Max(start.Col, end.Col)
    IN [k \in 1..(maxLine - minLine + 1) |->
           LET i == minLine + k - 1
               runes == s.Lines[i + 1]
           IN CASE s.SelectMode = SelectLine -> runes
                [] s.SelectMode = SelectBlock -> copyBlockLine(runes, minCol, maxCol)
                [] s.SelectMode = SelectChar ->
                       copyRanges(runes, selectionRangesForLine(s, i))]

\* the text copySelection hands to clipboard.WriteAll
copyText(s) == Flatten(copyPieces(s), <<NL>>)

\* a copySelection that ends the selection once the text is copied, as vi's y does
copySelectionClears(s, ok) ==
    IF s.SelectMode = SelectNone \/ s.SelectStart = NilPos
    THEN [s EXCEPT !.Status = "no selection"]
    ELSE IF ok
    THEN [s EXCEPT !.Status = "copied", !.SelectMode = SelectNone, !.SelectStart = NilPos]
    ELSE [s EXCEPT !.Status = "clipboard failed"]

\* copySelection; ok is the outcome of clipboard.WriteAll
copySelection(s, ok) ==
    IF s.SelectMode = SelectNone \/ s.SelectStart = NilPos
    THEN [s EXCEPT !.Status = "no selection"]
    ELSE [s EXCEPT !.Status = IF ok THEN "copied" ELSE "clipboard failed"]

-----------------------------------------------------------------------------
(* Viewer: follow                                                          *)

\* appendLines that advances the cursor wherever it is
appendLinesAlwaysJump(s, lines) ==
    IF Len(lines) = 0 THEN s
    ELSE [s EXCEPT !.Lines = s.Lines \o lines,
                   !.Cursor = Len(s.Lines) + Len(lines) - 1,
                   !.CursorCol = 0, !.GoalCol = 0]

appendLines(s, lines) ==
    IF Len(lines) = 0 THEN s
    ELSE LET atEnd == s.Cursor >= Len(s.Lines) - 1
             t == [s EXCEPT !.Lines = s.Lines \o lines]
         IN IF s.Follow /\ atEnd
            THEN [t EXCEPT !.Cursor = Len(t.Lines) - 1, !.CursorCol = 0, !.GoalCol = 0]
            ELSE t

-----------------------------------------------------------------------------
(* Inputs of the viewer model                                              *)

\* the initial batch of lines of a session with every command (main refuses an
\* empty input)
InitDocs == { << <<"a", "-", "b">>, <<"B">> >> }

\* the initial batches of the sessions that select and copy
SelectDocs ==
    { << <<"a", "b", "-", "A", "b">>, <<"a">>, <<>>, <<"-", "b", "a">> >>,
      << <<"a", "b">>, <<"B", "a", "-", "-">> >> }

\* lines the tailing producer may deliver
TailLines == {<<>>}

\* texts typed into the search prompt
Queries == {<<" ", "b">>, <<"_">>, <<" ">>}

\* terminal sizes, [w, h]
TermSizes == {[w |-> 4, h |-> 3]}

\* a batch in the channel: the lines, and the producer's running number of it
Batch(seq, lines) == [seq |-> seq, lines |-> lines]

NoTail == [file |-> <<>>, wrote |-> <<>>, pos |-> "idle", line |-> <<>>,
           sent |-> <<>>, nsent |-> 0, recv |-> <<>>]

NoEng == [line |-> <<>>, rules |-> <<>>, spans |-> <<>>, out |-> <<>>, done |-> FALSE]

NewIter == [drained |-> 0, drawn |-> FALSE]

-----------------------------------------------------------------------------
(* ui.Run: the main loop                                                   *)

nonblock == v.Follow

InitLoop ==
    /\ dirty = TRUE
    /\ pc = "loop"
    /\ followCh = <<>>
    /\ clipboard = <<>>
    /\ lastOp = "init"
    /\ iter = NewIter

\* a session over one of docs; follow sessions only where follows says so
InitViewer(docs, follows) ==
    /\ \E doc \in docs, ln \in BOOLEAN, follow \in follows :
           v = NewViewer(doc, ln, follow)
    /\ term \in TermSizes
    /\ InitLoop
    /\ tail = NoTail
    /\ eng = NoEng

Init == InitViewer(InitDocs, BOOLEAN)

\* if dirty { viewer.draw(); dirty = false }
Draw ==
    /\ pc = "loop"
    /\ dirty
    /\ v' = draw(v, term.w, term.h)
    /\ dirty' = FALSE
    /\ pc' = "read"
    /\ lastOp' = "draw"
    /\ iter' = [drained |-> 0, drawn |-> TRUE]
    /\ clipboard' = <<>>
    /\ UNCHANGED <<followCh, term, tail, eng>>

\* the loop top when nothing changed since the last redraw
NoDraw ==
    /\ pc = "loop"
    /\ ~dirty
    /\ pc' = "read"
    /\ iter' = [iter EXCEPT !.drained = 0]
    /\ UNCHANGED <<v, dirty, followCh, clipboard, term, lastOp, tail, eng>>

\* a key was read and its case of the switch ran; dirty = true
Handled(op, s) ==
    /\ pc = "read"
    /\ v' = s
    /\ dirty' = TRUE
    /\ pc' = "loop"
    /\ lastOp' = op
    /\ UNCHANGED <<followCh, term, iter, tail, eng>>

\* a key was read and its handler panicked: the process ends
Panicked(op, s) ==
    /\ pc = "read"
    /\ v' = s
    /\ pc' = "panic"
    /\ lastOp' = op
    /\ UNCHANGED <<dirty, followCh, term, iter, tail, eng>>

\* a handler that ran to its end, or into a panic
Ran(op, run) ==
    /\ pc = "read"
    /\ IF run.panics THEN Panicked(op, run.state) ELSE Handled(op, run.state)

KeyMove ==
    \/ Handled("j", moveCursor(v, 1))
    \/ Handled("k", moveCursor(v, -1))
    \/ Handled("h", moveCursorCol(v, -1))
    \/ Handled("l", moveCursorCol(v, 1))
    \/ Handled("0", moveLineStart(v))
    \/ Handled("I", moveLineStart(v))
    \/ Handled("$", moveLineEnd(v))
    \/ Handled("A", moveLineEnd(v))
    \/ Handled("g", cursorTop(v))
    \/ Handled("G", cursorBottom(v))

KeyWord ==
    \/ Handled("w", moveWordForward(v))
    \/ Handled("b", moveWordBackward(v))
    \/ Handled("e", moveWordEnd(v))

KeyView ==
    \/ Handled("W", toggleWrap(v))
    \/ Handled("L", [v EXCEPT !.LineNumbers = ~v.LineNumbers])

\* '/' and '?': the prompt, then setQuery unless the prompt was cancelled
Search(queries) ==
    \/ \E q \in queries : Ran("/", setQueryRun(prompt(v), q, 1))
    \/ \E q \in queries : Ran("?", setQueryRun(prompt(v), q, -1))
    \/ Handled("cancel", prompt(v))

KeySearch == Search(Queries)

KeyMatch ==
    \/ Ran("n", nextMatchRun(v, 1))
    \/ Ran("N", nextMatchRun(v, -1))

KeySelect ==
    \/ Handled("v", toggleSelect(v, SelectChar))
    \/ Handled("V", toggleSelect(v, SelectLine))
    \/ Handled("ctrl-v", toggleSelect(v, SelectBlock))

\* 'y': copySelection; the clipboard write succeeds or fails
KeyCopy ==
    \E ok \in BOOLEAN :
        /\ Handled("y", copySelection(v, ok))
        /\ clipboard' = IF v.SelectMode = SelectNone \/ v.SelectStart = NilPos
                        THEN clipboard
                        ELSE <<copyText(v)>>

\* 0x1b: clears an active selection, otherwise handleEscape decodes a sequence
KeyEscape ==
    \/ /\ v.SelectMode # SelectNone
       /\ Handled("esc", clearSelection(v))
    \/ /\ v.SelectMode = SelectNone
       /\ \/ Handled("up", moveCursor(v, -1))
          \/ Handled("down", moveCursor(v, 1))
          \/ Handled("right", moveCursorCol(v, 1))
          \/ Handled("left", moveCursorCol(v, -1))
          \/ Handled("pgup", page(v, -1, term.h))
          \/ Handled("pgdn", page(v, 1, term.h))
          \/ Handled("esc-other", v)

\* '\r', '\n': in a follow session appendLines([]string{""})
KeyEnter ==
    /\ Len(v.Lines) + Len(followCh) < MaxLines
    /\ Handled("enter", IF v.Follow THEN appendLines(v, << <<>> >>) ELSE v)

\* 'q': return nil
KeyQuit ==
    /\ pc = "read"
    /\ pc' = "done"
    /\ lastOp' = "q"
    /\ UNCHANGED <<v, dirty, followCh, clipboard, term, iter, tail, eng>>

\* a loop that applies a batch and polls again without going round
DrainAgain ==
    /\ pc = "read"
    /\ nonblock
    /\ Len(followCh) > 0
    /\ v' = appendLines(v, Head(followCh).lines)
    /\ followCh' = Tail(followCh)
    /\ dirty' = TRUE
    /\ lastOp' = "append"
    /\ iter' = [drained |-> iter.drained + 1, drawn |-> FALSE]
    /\ tail' = [tail EXCEPT !.recv = Append(tail.recv, Head(followCh).seq)]
    /\ UNCHANGED <<pc, clipboard, term, eng>>

\* a receive that applies the batch and does not ask for a redraw
DrainNoRedraw ==
    /\ pc = "read"
    /\ nonblock
    /\ Len(followCh) > 0
    /\ v' = appendLines(v, Head(followCh).lines)
    /\ followCh' = Tail(followCh)
    /\ pc' = "loop"
    /\ lastOp' = "append"
    /\ iter' = [drained |-> iter.drained + 1, drawn |-> FALSE]
    /\ tail' = [tail EXCEPT !.recv = Append(tail.recv, Head(followCh).seq)]
    /\ UNCHANGED <<dirty, clipboard, term, eng>>

\* ReadByte fails with EAGAIN and the select receives a batch
Drain ==
    /\ pc = "read"
    /\ nonblock
    /\ Len(followCh) > 0
    /\ v' = appendLines(v, Head(followCh).lines)
    /\ followCh' = Tail(followCh)
    /\ dirty' = TRUE
    /\ pc' = "loop"
    /\ lastOp' = "append"
    /\ iter' = [drained |-> iter.drained + 1, drawn |-> FALSE]
    /\ tail' = [tail EXCEPT !.recv = Append(tail.recv, Head(followCh).seq)]
    /\ UNCHANGED <<clipboard, term, eng>>

\* ReadByte fails with EAGAIN and the select takes its default: sleep, continue
Idle ==
    /\ pc = "read"
    /\ nonblock
    /\ Len(followCh) = 0
    /\ pc' = "loop"
    /\ UNCHANGED <<v, dirty, followCh, clipboard, term, lastOp, iter, tail, eng>>

\* out <- []string{line}
chanSend(ch, batch) == Append(ch, batch)

\* a channel without a capacity
canSendUnbounded(ch) == TRUE

\* make(chan []string, 16): a send blocks while the channel holds 16 batches
canSend(ch) == Len(ch) < ChanCap

\* the producer delivers one of lines, read from the followed file
Deliver(lines) ==
    /\ v.Follow
    /\ pc \notin {"done", "panic"}
    /\ canSend(followCh)
    /\ Len(v.Lines) + Len(followCh) < MaxLines
    /\ \E line \in lines :
           followCh' = chanSend(followCh, Batch(tail.nsent + 1, <<line>>))
    /\ tail' = [tail EXCEPT !.nsent = tail.nsent + 1]
    /\ UNCHANGED <<v, dirty, pc, clipboard, term, lastOp, iter, eng>>

TailDeliver == Deliver(TailLines)

Keys ==
    \/ KeyMove \/ KeyWord \/ KeyView \/ KeySearch \/ KeyMatch
    \/ KeySelect \/ KeyEscape \/ KeyEnter

Next ==
    \/ Draw \/ NoDraw
    \/ (Keys /\ UNCHANGED clipboard)
    \/ KeyCopy
    \/ KeyQuit
    \/ Drain \/ Idle
    \/ TailDeliver

Spec == Init /\ [][Next]_vars

\* sessions without follow in which the user moves, selects and copies
InitSelect == InitViewer(SelectDocs, {FALSE})

NextSelect ==
    \/ Draw
    \/ ((KeyMove \/ KeySelect \/ KeyEscape) /\ UNCHANGED clipboard)
    \/ KeyCopy
    \/ KeyQuit

SpecSelect == InitSelect /\ [][NextSelect]_vars

\* the initial batches of the sessions that move by words: words at the start and at
\* the end of lines, empty lines, non-word runes before and after the last word
WordDocs ==
    { << <<"a", "b", "-", "a">>, <<"b">>, <<>>, <<"-", "a", "-">> >>,
      << <<"-", "a">>, <<>>, <<"a", "b">> >> }

\* sessions without follow in which the user moves by runes, lines and words
InitWord == InitViewer(WordDocs, {FALSE})

NextWord ==
    \/ Draw
    \/ ((KeyMove \/ KeyWord) /\ UNCHANGED clipboard)
    \/ KeyQuit

SpecWord == InitWord /\ [][NextWord]_vars

\* the initial batch of the sessions that scroll and wrap: a line longer than every
\* terminal, an empty line, and more lines than fit on the screen
ViewDocs == { << <<"a", "b", "-", "a", "b">>, <<>>, <<"a", "b">>, <<"b", "-", "a">> >> }

\* the terminal sizes of those sessions, [w, h]; content height is h - 1
ViewSizes == {[w |-> 2, h |-> 2], [w |-> 3, h |-> 3], [w |-> 4, h |-> 2]}

InitView ==
    /\ \E doc \in ViewDocs, ln \in BOOLEAN : v = NewViewer(doc, ln, FALSE)
    /\ term \in ViewSizes
    /\ InitLoop
    /\ tail = NoTail
    /\ eng = NoEng

\* the terminal is resized while the loop waits for a key; term.GetSize reports the
\* new size from the next redraw on
Resize ==
    /\ pc = "read"
    /\ term' \in ViewSizes \ {term}
    /\ lastOp' = "resize"
    /\ UNCHANGED <<v, dirty, pc, followCh, clipboard, iter, tail, eng>>

NextView ==
    \/ Draw
    \/ ((KeyMove \/ KeyView \/ KeyEscape) /\ UNCHANGED clipboard)
    \/ Resize
    \/ KeyQuit

SpecView == InitView /\ [][NextView]_vars

\* the initial batches of the sessions that search: ASCII lines, and lines with
\* U+023A, whose lower case is a byte longer
SearchDocs ==
    { << <<"a", "-", "B">>, <<"b", "A">> >>,
      << <<"U+023A", "b", "a">>, <<"U+023A", "U+023A", "b">> >> }

\* lines the producer delivers while the user searches
SearchTailLines == {<<"b">>}

\* follow sessions in which the user searches, moves and lines arrive
InitSearch == InitViewer(SearchDocs, {TRUE})

SearchDeliver == Deliver(SearchTailLines)

\* texts typed into the search prompt of these sessions
SearchQueries == {<<" ", "B">>, <<"a">>, <<"-">>, <<"_">>, <<" ">>}

SearchKey == Search(SearchQueries)

NextSearch ==
    \/ Draw \/ NoDraw
    \/ ((KeyMove \/ SearchKey \/ KeyMatch \/ KeyEnter) /\ UNCHANGED clipboard)
    \/ KeyQuit
    \/ Drain \/ Idle
    \/ SearchDeliver

SpecSearch == InitSearch /\ [][NextSearch]_vars

-----------------------------------------------------------------------------
(* cmd/tilo: tailFile, the producer goroutine                              *)

\* bytes a writer appends to the followed file
FileBytes == {"a", CR, NL}

\* the line every writer of the loop model appends, newline included
LogLine == <<"a", NL>>

\* the index of the first newline of data, 0 if there is none
FirstNL(data) ==
    LET at == {i \in 1..Len(data) : data[i] = NL}
    IN IF at = {} THEN 0 ELSE CHOOSE i \in at : \A j \in at : i <= j

\* reader.ReadString('\n') on the unread bytes of the file: the bytes up to the first
\* newline with a nil error, or every unread byte with io.EOF; rest stays unread
ReadString(data) ==
    IF FirstNL(data) > 0
    THEN [line |-> SubSeq(data, 1, FirstNL(data)), eof |-> FALSE,
          rest |-> SubSeq(data, FirstNL(data) + 1, Len(data))]
    ELSE [line |-> data, eof |-> TRUE, rest |-> <<>>]

\* a writer appends bytes to the followed file
fileWrite(data) ==
    /\ tail' = [tail EXCEPT !.file = tail.file \o data, !.wrote = tail.wrote \o data]
    /\ UNCHANGED <<v, dirty, pc, followCh, clipboard, term, lastOp, iter, eng>>

\* a writer that appends one byte at a time
WriteByte ==
    /\ Len(tail.wrote) < MaxWrites
    /\ \E b \in FileBytes : fileWrite(<<b>>)

\* a writer that appends whole lines
WriteLine ==
    /\ Len(tail.wrote) < MaxBatches * Len(LogLine)
    /\ fileWrite(LogLine)

\* the body of the goroutine's loop up to the send: ReadString, the io.EOF branch
\* (the bytes read are dropped, sleep, continue), the two TrimSuffix calls
TailRead ==
    /\ tail.pos = "read"
    /\ LET r == ReadString(tail.file)
       IN tail' = IF r.eof
                  THEN [tail EXCEPT !.file = r.rest, !.pos = "sleep"]
                  ELSE [tail EXCEPT !.file = r.rest, !.pos = "send",
                                    !.line = TrimSuffix(TrimSuffix(r.line, NL), CR)]
    /\ UNCHANGED <<v, dirty, pc, followCh, clipboard, term, lastOp, iter, eng>>

\* time.Sleep(200 * time.Millisecond) is over
TailWake ==
    /\ tail.pos = "sleep"
    /\ tail' = [tail EXCEPT !.pos = "read"]
    /\ UNCHANGED <<v, dirty, pc, followCh, clipboard, term, lastOp, iter, eng>>

\* out <- []string{line}
TailSend ==
    /\ tail.pos = "send"
    /\ canSend(followCh)
    /\ followCh' = chanSend(followCh, Batch(tail.nsent + 1, <<tail.line>>))
    /\ tail' = [tail EXCEPT !.pos = "read", !.nsent = tail.nsent + 1,
                            !.sent = Append(tail.sent, tail.line), !.line = <<>>]
    /\ UNCHANGED <<v, dirty, pc, clipboard, term, lastOp, iter, eng>>

\* a follow session over a one-line file whose user does not touch the keyboard,
\* while a writer appends bytes to the file
InitTail ==
    /\ v = NewViewer(<< <<"a">> >>, TRUE, TRUE)
    /\ term \in TermSizes
    /\ InitLoop
    /\ tail = [NoTail EXCEPT !.pos = "read"]
    /\ eng = NoEng

NextTail ==
    \/ WriteByte \/ TailRead \/ TailWake \/ TailSend
    \/ Draw \/ NoDraw \/ Drain \/ Idle

SpecTail == InitTail /\ [][NextTail]_vars

\* a follow session whose user moves the cursor while a writer appends whole lines
NextLoop ==
    \/ WriteLine \/ TailRead \/ TailWake \/ TailSend
    \/ Draw \/ NoDraw \/ Drain \/ Idle
    \/ (KeyMove /\ UNCHANGED clipboard)
    \/ KeyQuit

SpecLoop == InitTail /\ [][NextLoop]_vars

-----------------------------------------------------------------------------
(* internal/color: the rule engine                                         *)
(*                                                                         *)
(* A compiled pattern is modelled as an ordered list of literal            *)
(* alternatives, matched leftmost-first as Go's regexp does; <<>> is a nil *)
(* *regexp.Regexp.                                                         *)

ESC == "ESC"

ansiColors(name) ==
    CASE name = "red" -> <<"3", "1">>
      [] name = "green" -> <<"3", "2">>
      [] name = "blue" -> <<"3", "4">>
      [] OTHER -> <<>>

ansiStyles(name) ==
    CASE name = "bold" -> <<"1">>
      [] name = "underline" -> <<"4">>
      [] OTHER -> <<>>

\* strings.ToLower on the colour and style names of the model
lowerName(name) ==
    CASE name = "RED" -> "red"
      [] name = "Bold" -> "bold"
      [] name = "URL" -> "url"
      [] OTHER -> name

reset == <<ESC, "[", "0", "m">>

colorCode(colorName, style) ==
    LET st == IF lowerName(style) # "" THEN ansiStyles(lowerName(style)) ELSE <<>>
        co == IF lowerName(colorName) # "" THEN ansiColors(lowerName(colorName)) ELSE <<>>
    IN IF st # <<>> /\ co # <<>> THEN st \o <<";">> \o co ELSE st \o co

Wrap(text, colorName, style) ==
    IF colorCode(colorName, style) = <<>> THEN text
    ELSE <<ESC, "[">> \o colorCode(colorName, style) \o <<"m">> \o text \o reset

Rule(name, regex, colorName, style, enabled) ==
    [Name |-> name, Regex |-> regex, Color |-> colorName, Style |-> style,
     Enabled |-> enabled]

\* the alternatives of regex that match line at byte offset p, by their position
altsAt(line, regex, p) == {k \in 1..Len(regex) : HasPrefixAt(line, regex[k], p)}

RECURSIVE findAllFrom(_, _, _, _)
\* the loop of Regexp.FindAllStringIndex: successive leftmost-first matches from pos;
\* an empty match right after the previous match is not delivered
findAllFrom(line, regex, pos, prevMatchEnd) ==
    LET at == {p \in pos..Len(line) : altsAt(line, regex, p) # {}}
    IN IF pos > Len(line) \/ at = {} THEN <<>>
       ELSE LET p == CHOOSE x \in at : \A y \in at : x <= y
                k == CHOOSE x \in altsAt(line, regex, p) :
                         \A y \in altsAt(line, regex, p) : x <= y
                e == p + Len(regex[k])
            IN IF e = pos
               THEN (IF p = prevMatchEnd THEN <<>> ELSE <<posRange(p, e)>>)
                        \o findAllFrom(line, regex, pos + 1, e)
               ELSE <<posRange(p, e)>> \o findAllFrom(line, regex, e, e)

\* rule.Regex.FindAllStringIndex(line, -1)
FindAllStringIndex(line, regex) == findAllFrom(line, regex, 0, -1)

\* a claim that marks only the first byte of an accepted match
claimBytesFirstOnly(occupied, start, end) == occupied \cup {start}

\* for i := start; i < end; i++ { occupied[i] = true }
claimBytes(occupied, start, end) == occupied \cup (start..(end - 1))

RECURSIVE acceptMatches(_, _, _, _)
\* the loop over the matches of one rule; acc is [occupied, spans]
acceptMatches(indices, rule, ruleIdx, acc) ==
    IF Len(indices) = 0 THEN acc
    ELSE LET start == indices[1].start
             end == indices[1].end
             skip == \E i \in start..(end - 1) : i \in acc.occupied
         IN IF start >= end \/ skip
            THEN acceptMatches(Tail(indices), rule, ruleIdx, acc)
            ELSE acceptMatches(Tail(indices), rule, ruleIdx,
                     [occupied |-> claimBytes(acc.occupied, start, end),
                      spans |-> Append(acc.spans,
                                   [start |-> start, end |-> end, color |-> rule.Color,
                                    style |-> rule.Style, rule |-> ruleIdx])])

RECURSIVE acceptRules(_, _, _, _)
\* the loop over the rules, from rule number ruleIdx on
acceptRules(line, rules, ruleIdx, acc) ==
    IF ruleIdx > Len(rules) THEN acc
    ELSE LET rule == rules[ruleIdx]
         IN IF ~rule.Enabled \/ rule.Regex = <<>>
            THEN acceptRules(line, rules, ruleIdx + 1, acc)
            ELSE acceptRules(line, rules, ruleIdx + 1,
                     acceptMatches(FindAllStringIndex(line, rule.Regex), rule, ruleIdx, acc))

\* the spans ApplyRules accepts, in the order it accepts them
acceptedSpans(line, rules) ==
    acceptRules(line, rules, 1, [occupied |-> {}, spans |-> <<>>]).spans

spanLess(a, b) == IF a.start = b.start THEN a.end < b.end ELSE a.start < b.start

RECURSIVE sortSpans(_)
\* sort.Slice(spans, ...): no two accepted spans compare equal
sortSpans(spans) ==
    IF Len(spans) = 0 THEN <<>>
    ELSE LET m == CHOOSE i \in 1..Len(spans) :
                      \A j \in 1..Len(spans) : j = i \/ ~spanLess(spans[j], spans[i])
         IN <<spans[m]>> \o sortSpans([k \in 1..(Len(spans) - 1) |->
                                          IF k < m THEN spans[k] ELSE spans[k + 1]])

RECURSIVE stitch(_, _, _)
\* the loop that writes the output from the sorted spans
stitch(line, spans, pos) ==
    IF Len(spans) = 0 THEN Slice(line, pos, Len(line))
    ELSE LET sp == spans[1]
         IN IF sp.start < pos THEN stitch(line, Tail(spans), pos)
            ELSE Slice(line, pos, sp.start)
                     \o Wrap(Slice(line, sp.start, sp.end), sp.color, sp.style)
                     \o stitch(line, Tail(spans), sp.end)

ApplyRules(line, rules) ==
    IF Len(rules) = 0 \/ line = <<>> THEN line
    ELSE IF Len(acceptedSpans(line, rules)) = 0 THEN line
    ELSE stitch(line, sortSpans(acceptedSpans(line, rules)), 0)

\* the lines the rule engine is run on: every line over a, b up to MaxRuleLine bytes
RuleLines == UNION {[1..n -> {"a", "b"}] : n \in 0..MaxRuleLine}

\* the rules the rule lists are built from
RulePool ==
    { Rule("ab", << <<"a", "b">> >>, "red", "", TRUE),
      Rule("bab", << <<"b", "a", "b">> >>, "green", "bold", TRUE),
      Rule("b|aa", << <<"b">>, <<"a", "a">> >>, "blue", "", TRUE),
      Rule("b|", << <<"b">>, <<>> >>, "RED", "underline", TRUE),
      Rule("off", << <<"a">> >>, "red", "", FALSE),
      Rule("nil", <<>>, "red", "", TRUE) }

\* rule lists of one to MaxRules different rules
RuleLists ==
    UNION {{f \in [1..n -> RulePool] : \A i \in 1..n, j \in 1..n : i # j => f[i] # f[j]} :
               n \in 1..MaxRules}

InitRules ==
    /\ v = NewViewer(<< <<>> >>, TRUE, FALSE)
    /\ term \in TermSizes
    /\ InitLoop
    /\ tail = NoTail
    /\ \E line \in RuleLines, rules \in RuleLists :
           eng = [NoEng EXCEPT !.line = line, !.rules = rules]

\* color.ApplyRules(line, rules)
RunApplyRules ==
    /\ ~eng.done
    /\ eng' = [eng EXCEPT !.spans = IF Len(eng.rules) = 0 \/ eng.line = <<>> THEN <<>>
                                    ELSE acceptedSpans(eng.line, eng.rules),
                          !.out = ApplyRules(eng.line, eng.rules),
                          !.done = TRUE]
    /\ UNCHANGED <<v, dirty, pc, followCh, clipboard, term, lastOp, iter, tail>>

NextRules == RunApplyRules

SpecRules == InitRules /\ [][NextRules]_vars

-----------------------------------------------------------------------------
(* Viewer: styled strings, as sequences of bytes                           *)

\* the three bytes of U+2022, the bullet of the key reference
Bullet == <<"xE2", "x80", "xA2">>

\* utf8.RuneCountInString: a complete bullet is one rune, and every byte that is not
\* part of a complete encoding counts as one rune
RuneCountInString(s) ==
    Len(s) - 2 * Cardinality({i \in 1..(Len(s) - 2) : SubSeq(s, i, i + 2) = Bullet})

\* strings.Repeat(" ", n)
Spaces(n) == [i \in 1..n |-> " "]

\* the value of inEscape after the first n bytes of s: an ESC was read and no 'm'
\* after it
inEscape(s, n) == \E j \in 1..n : s[j] = ESC /\ \A k \in (j + 1)..n : s[k] # "m"

\* the indices of the bytes of s that the loops of stripANSI and truncateANSI find
\* outside an escape sequence
plainIndices(s) ==
    SelectSeq([i \in 1..Len(s) |-> i], LAMBDA i : s[i] # ESC /\ ~inEscape(s, i - 1))

stripANSI(s) ==
    LET idx == plainIndices(s)
    IN [k \in 1..Len(idx) |-> s[idx[k]]]

visibleWidth(s) == RuneCountInString(stripANSI(s))

\* the bytes written before the break: all up to the byte outside an escape sequence
\* that is met with count >= width
truncateANSI(s, width) ==
    IF width <= 0 THEN <<>>
    ELSE LET idx == plainIndices(s)
         IN IF Len(idx) <= width THEN s
            ELSE SubSeq(s, 1, idx[width + 1] - 1) \o reset

padRight(s, width) ==
    LET plain == stripANSI(s)
    IN IF width <= 0 THEN s
       ELSE IF Len(plain) >= width THEN truncateANSI(s, width)
       ELSE s \o Spaces(width - Len(plain))

padLeft(s, width) ==
    LET visible == visibleWidth(s)
    IN IF width <= 0 THEN s
       ELSE IF visible >= width THEN s
       ELSE Spaces(width - visible) \o s

\* red text: the opening code of color.Wrap
sgrRed == <<ESC, "[", "3", "1", "m">>

\* the pieces styled strings are made of: ASCII bytes, a bullet, style codes
StyleTokens == {<<"a">>, <<"b">>, Bullet, sgrRed, reset}

\* the number of pieces of the strings handed to truncateANSI
MaxTokens == 3

\* the strings handed to truncateANSI
StyledStrings ==
    UNION {{Flatten(f, <<>>) : f \in [1..n -> StyleTokens]} : n \in 0..MaxTokens}

\* the widths they are truncated to
TruncWidths == 1..MaxTokens

InitTrunc ==
    /\ v = NewViewer(<< <<>> >>, TRUE, FALSE)
    /\ term \in TermSizes
    /\ InitLoop
    /\ tail = NoTail
    /\ \E s \in StyledStrings, w \in TruncWidths :
           eng = [text |-> s, width |-> w, out |-> <<>>, done |-> FALSE]

\* truncateANSI(text, width)
RunTruncate ==
    /\ ~eng.done
    /\ eng' = [eng EXCEPT !.out = truncateANSI(eng.text, eng.width), !.done = TRUE]
    /\ UNCHANGED <<v, dirty, pc, followCh, clipboard, term, lastOp, iter, tail>>

NextTrunc == RunTruncate

SpecTrunc == InitTrunc /\ [][NextTrunc]_vars

-----------------------------------------------------------------------------
(* Viewer: the status line                                                 *)

RECURSIVE Itoa(_)
\* fmt.Sprintf("%d", n) for n >= 0
Itoa(n) ==
    LET digit == <<"0", "1", "2", "3", "4", "5", "6", "7", "8", "9">>[(n % 10) + 1]
    IN IF n < 10 THEN <<digit>> ELSE Itoa(n \div 10) \o <<digit>>

\* the bytes of the texts that v.Status and the selection labels take
TextBytes(text) ==
    CASE text = "" -> <<>>
      [] text = "no matches" ->
      <<"n", "o", " ", "m", "a", "t", "c", "h", "e", "s">>
      [] text = "visual" ->
      <<"v", "i", "s", "u", "a", "l">>
      [] text = "visual-line" ->
      <<"v", "i", "s", "u", "a", "l", "-", "l", "i", "n", "e">>
      [] text = "visual-block" ->
      <<"v", "i", "s", "u", "a", "l", "-", "b", "l", "o", "c", "k">>
      [] text = "selection cleared" ->
      <<"s", "e", "l", "e", "c", "t", "i", "o", "n", " ", "c", "l", "e", "a", "r", "e", "d">>
      [] text = "no selection" ->
      <<"n", "o", " ", "s", "e", "l", "e", "c", "t", "i", "o", "n">>
      [] text = "clipboard failed" ->
      <<"c", "l", "i", "p", "b", "o", "a", "r", "d", " ", "f", "a", "i", "l", "e", "d">>
      [] text = "copied" ->
      <<"c", "o", "p", "i", "e", "d">>

statusBG == <<ESC, "[", "1", "0", "0", "m">>
statusFG == <<ESC, "[", "9", "7", "m">>

\* the key reference of the status line
help ==
    <<"q", " ", "q", "u", "i", "t", " ", "xE2", "x80", "xA2", " ", "/", " ", "?", " ", "s",
      "e", "a", "r", "c", "h", " ", "xE2", "x80", "xA2", " ", "n", "/", "N", " ", "n", "e",
      "x", "t", " ", "xE2", "x80", "xA2", " ", "h", "/", "j", "/", "k", "/", "l", " ", "m",
      "o", "v", "e", " ", "xE2", "x80", "xA2", " ", "w", "/", "b", "/", "e", " ", "w", "o",
      "r", "d", " ", "xE2", "x80", "xA2", " ", "0", "/", "$", "/", "I", "/", "A", " ", "l",
      "i", "n", "e", " ", "xE2", "x80", "xA2", " ", "g", "/", "G", " ", "t", "o", "p", "/",
      "b", "o", "t", " ", "xE2", "x80", "xA2", " ", "v", "/", "V", "/", "c", "t", "r", "l",
      "-", "v", " ", "s", "e", "l", "e", "c", "t", " ", "xE2", "x80", "xA2", " ", "y", " ",
      "y", "a", "n", "k", " ", "xE2", "x80", "xA2", " ", "L", " ", "l", "i", "n", "e", "#",
      " ", "xE2", "x80", "xA2", " ", "W", " ", "w", "r", "a", "p">>

statusParts(s) ==
    (IF s.Query # <<>> /\ Len(s.Matches) > 0
     THEN << <<"m", "a", "t", "c", "h", " ">> \o Itoa(s.MatchIndex + 1) \o <<"/">>
                \o Itoa(Len(s.Matches)) >>
     ELSE <<>>)
    \o (IF s.SelectMode # SelectNone THEN <<TextBytes(modeLabel(s.SelectMode))>> ELSE <<>>)
    \o (IF s.Query # <<>> THEN << <<"/">> \o s.Query >> ELSE <<>>)
    \o (IF s.Status # "" THEN <<TextBytes(s.Status)>> ELSE <<>>)

\* the text to the left of the indicator, before it is fitted to the width
statusLeft(s) ==
    LET parts == statusParts(s)
    IN IF Len(parts) > 0
       THEN Flatten(parts, <<" ", "|", " ">>) \o <<" ", "|", " ">> \o help
       ELSE help

indicator(s) == Itoa(s.Cursor + 1) \o <<"/">> \o Itoa(Len(s.Lines))

statusLine(s, width) ==
    LET left == statusLeft(s)
        available == width - visibleWidth(indicator(s))
    IN IF s.InPrompt THEN <<>>
       ELSE IF left = <<>> THEN padLeft(indicator(s), width)
       ELSE IF available < 1 THEN padLeft(indicator(s), width)
       ELSE padRight(left, available) \o indicator(s)

renderStatusLine(s, width) ==
    LET text == statusLine(s, width)
        visible == visibleWidth(text)
        fitted == IF visible < width THEN text \o Spaces(width - visible)
                  ELSE IF visible > width THEN truncateANSI(text, width)
                  ELSE text
    IN statusBG \o statusFG \o fitted \o reset

\* the widest of the narrow terminals the status line is rendered for
MaxNarrow == 12

\* the terminal widths the status line is rendered for: narrow ones, where the left
\* part is cut, the usual 80 columns, and one wide enough for the whole key reference
StatusWidths == (1..MaxNarrow) \cup {80, 200}

\* search states: no query, a query without matches, a query with two matches
StatusSearches ==
    {[Query |-> <<>>, Matches |-> <<>>, MatchIndex |-> 0],
     [Query |-> <<"a">>, Matches |-> <<>>, MatchIndex |-> 0],
     [Query |-> <<"a">>, Matches |-> <<0, 1>>, MatchIndex |-> 0],
     [Query |-> <<"a">>, Matches |-> <<0, 1>>, MatchIndex |-> 1]}

\* selection modes with the status texts seen in them
StatusModes ==
    {<<SelectNone, "">>, <<SelectNone, "copied">>, <<SelectNone, "no matches">>,
     <<SelectChar, "visual">>, <<SelectChar, "no matches">>, <<SelectLine, "">>,
     <<SelectBlock, "clipboard failed">>}

\* viewer states outside the prompt, as far as the status line depends on them
StatusViewers ==
    {[NewViewer(doc, FALSE, FALSE) EXCEPT
          !.Cursor = c, !.Query = q.Query, !.Matches = q.Matches,
          !.MatchIndex = q.MatchIndex, !.SelectMode = m[1], !.Status = m[2],
          !.SelectStart = IF m[1] = SelectNone THEN NilPos ELSE Position(0, 0)] :
       doc \in SelectDocs, c \in 0..1, q \in StatusSearches, m \in StatusModes}

InitStatus ==
    /\ v \in StatusViewers
    /\ term \in {[w |-> w, h |-> 3] : w \in StatusWidths}
    /\ InitLoop
    /\ tail = NoTail
    /\ eng = [out |-> <<>>, done |-> FALSE]

\* v.renderStatusLine(width) of draw
RunStatus ==
    /\ ~eng.done
    /\ eng' = [eng EXCEPT !.out = renderStatusLine(v, term.w), !.done = TRUE]
    /\ UNCHANGED <<v, dirty, pc, followCh, clipboard, term, lastOp, iter, tail>>

NextStatus == RunStatus

SpecStatus == InitStatus /\ [][NextStatus]_vars

-----------------------------------------------------------------------------
(* ui.Run and handleEscape, byte by byte                                   *)

\* the cases of the switch in Run that take no further input; a byte without a case
\* changes nothing
keySwitch(s, b) ==
    CASE b = "j" -> moveCursor(s, 1)
      [] b = "k" -> moveCursor(s, -1)
      [] b = "h" -> moveCursorCol(s, -1)
      [] b = "l" -> moveCursorCol(s, 1)
      [] b \in {"0", "I"} -> moveLineStart(s)
      [] b \in {"$", "A"} -> moveLineEnd(s)
      [] b = "w" -> moveWordForward(s)
      [] b = "b" -> moveWordBackward(s)
      [] b = "e" -> moveWordEnd(s)
      [] b = "W" -> toggleWrap(s)
      [] b = "g" -> cursorTop(s)
      [] b = "G" -> cursorBottom(s)
      [] b = "v" -> toggleSelect(s, SelectChar)
      [] b = "V" -> toggleSelect(s, SelectLine)
      [] b = "L" -> [s EXCEPT !.LineNumbers = ~s.LineNumbers]
      [] OTHER -> s

\* the keys typed one byte at a time
PlainKeys == {<<"j">>, <<"k">>, <<"h">>, <<"l">>, <<"v">>}

\* the sequences handleEscape has a case for
ArrowSequences == {<<ESC, "[", c>> : c \in {"A", "B", "C", "D"}}
PageSequences == {<<ESC, "[", "5", "~">>, <<ESC, "[", "6", "~">>}

\* sequences it has no case for: a lone ESC, a cut CSI, Alt-x, Home, the SS3 form of
\* the up arrow, Shift-Up, F9
OtherSequences ==
    {<<ESC>>, <<ESC, "[">>, <<ESC, "x">>, <<ESC, "[", "H">>, <<ESC, "O", "A">>,
     <<ESC, "[", "1", ";", "2", "A">>, <<ESC, "[", "2", "0", "~">>}

TypedSequences == PlainKeys \cup ArrowSequences \cup PageSequences \cup OtherSequences

\* the initial batch of the sessions typed byte by byte
KeysDocs == { << <<"a", "b", "a">>, <<"b">>, <<"a", "-", "b", "a">> >> }

\* eng holds the terminal input: the bytes not yet read, the sequence they came
\* from, the viewer when it was typed, and whether the loop was then waiting for a key
InitKeys ==
    /\ \E doc \in KeysDocs, follow \in BOOLEAN : v = NewViewer(doc, FALSE, follow)
    /\ term \in TermSizes
    /\ InitLoop
    /\ tail = NoTail
    /\ eng = [stdin |-> <<>>, seq |-> <<>>, start |-> v, fresh |-> FALSE]

\* the terminal sends the bytes of a key press
Type ==
    /\ pc \in {"read", "esc1", "esc2", "esc5", "esc6"}
    /\ eng.stdin = <<>>
    /\ \E seq \in TypedSequences :
           eng' = [stdin |-> seq, seq |-> seq, start |-> v, fresh |-> (pc = "read")]
    /\ UNCHANGED <<v, dirty, pc, followCh, clipboard, term, lastOp, iter, tail>>

\* what every step that takes input leaves alone
InputFrame == UNCHANGED <<followCh, clipboard, term, iter, tail>>

\* a handler returned to the switch: dirty = true
Returned(op, s) ==
    /\ v' = s
    /\ dirty' = TRUE
    /\ pc' = "loop"
    /\ lastOp' = op

\* b, err := reader.ReadByte() of Run, and the switch
ReadKey ==
    /\ pc = "read"
    /\ eng.stdin # <<>>
    /\ eng' = [eng EXCEPT !.stdin = Tail(eng.stdin)]
    /\ LET b == Head(eng.stdin)
       IN IF b # ESC THEN Returned(b, keySwitch(v, b))
          ELSE IF v.SelectMode # SelectNone THEN Returned("esc", clearSelection(v))
          ELSE pc' = "esc1" /\ UNCHANGED <<v, dirty, lastOp>>
    /\ InputFrame

\* a ReadByte of handleEscape fails: no byte is waiting on a non-blocking stdin
NoByte == nonblock /\ eng.stdin = <<>>

\* handleEscape: the byte after ESC
EscFirst ==
    /\ pc = "esc1"
    /\ \/ /\ eng.stdin # <<>>
          /\ eng' = [eng EXCEPT !.stdin = Tail(eng.stdin)]
          /\ IF Head(eng.stdin) = "[" THEN pc' = "esc2" /\ UNCHANGED <<v, dirty, lastOp>>
             ELSE Returned("esc-other", v)
       \/ /\ NoByte
          /\ Returned("esc-other", v)
          /\ UNCHANGED eng
    /\ InputFrame

\* handleEscape: the code byte and its switch
EscCode ==
    /\ pc = "esc2"
    /\ \/ /\ eng.stdin # <<>>
          /\ eng' = [eng EXCEPT !.stdin = Tail(eng.stdin)]
          /\ LET code == Head(eng.stdin)
             IN CASE code = "A" -> Returned("up", moveCursor(v, -1))
                  [] code = "B" -> Returned("down", moveCursor(v, 1))
                  [] code = "C" -> Returned("right", moveCursorCol(v, 1))
                  [] code = "D" -> Returned("left", moveCursorCol(v, -1))
                  [] code = "5" -> pc' = "esc5" /\ UNCHANGED <<v, dirty, lastOp>>
                  [] code = "6" -> pc' = "esc6" /\ UNCHANGED <<v, dirty, lastOp>>
                  [] OTHER -> Returned("esc-other", v)
       \/ /\ NoByte
          /\ Returned("esc-other", v)
          /\ UNCHANGED eng
    /\ InputFrame

\* handleEscape: _, _ = reader.ReadByte() and page
EscPage ==
    /\ pc \in {"esc5", "esc6"}
    /\ \/ eng.stdin # <<>> /\ eng' = [eng EXCEPT !.stdin = Tail(eng.stdin)]
       \/ NoByte /\ UNCHANGED eng
    /\ IF pc = "esc5" THEN Returned("pgup", page(v, -1, term.h))
       ELSE Returned("pgdn", page(v, 1, term.h))
    /\ InputFrame

NextKeys ==
    \/ Draw \/ NoDraw
    \/ Type
    \/ ReadKey
    \/ EscFirst
    \/ EscCode
    \/ EscPage
    \/ Idle

SpecKeys == InitKeys /\ [][NextKeys]_vars

-----------------------------------------------------------------------------
(* color.BuildRules                                                        *)

\* regexp.Compile on the patterns of the model: the compiled expression, as its list
\* of alternatives, or an error
regexpCompile(pattern) ==
    CASE pattern = "a" -> [ok |-> TRUE, re |-> << <<"a">> >>]
      [] pattern = "b|aa" -> [ok |-> TRUE, re |-> << <<"b">>, <<"a", "a">> >>]
      [] pattern = "(" -> [ok |-> FALSE, re |-> <<>>]
      [] pattern = "a[" -> [ok |-> FALSE, re |-> <<>>]

CustomRule(pattern, colorName, style) ==
    [Pattern |-> pattern, Color |-> colorName, Style |-> style]

\* fmt.Errorf("invalid custom rule regex %q: %w", r.Pattern, err)
invalidRegex(pattern) == [msg |-> "invalid custom rule regex", pattern |-> pattern]

NoError == [msg |-> "", pattern |-> ""]

toRule(r) ==
    IF regexpCompile(r.Pattern).ok
    THEN [rule |-> Rule("custom", regexpCompile(r.Pattern).re, r.Color, r.Style, TRUE),
          err |-> NoError]
    ELSE [rule |-> Rule("", <<>>, "", "", FALSE), err |-> invalidRegex(r.Pattern)]

\* the first loop of BuildRules: every built-in rule, switched off or recoloured
buildDefaults(defaults, overrides, disable) ==
    LET disabled == {lowerName(disable[i]) : i \in 1..Len(disable)}
    IN [i \in 1..Len(defaults) |->
           [defaults[i] EXCEPT
               !.Enabled = lowerName(defaults[i].Name) \notin disabled,
               !.Color = IF lowerName(defaults[i].Name) \in DOMAIN overrides
                         THEN overrides[lowerName(defaults[i].Name)] ELSE @]]

\* BuildRules that leaves out the custom rules whose pattern does not compile
BuildRulesSkipInvalid(defaults, overrides, disable, custom) ==
    LET valid == SelectSeq(custom, LAMBDA r : regexpCompile(r.Pattern).ok)
    IN [rules |-> buildDefaults(defaults, overrides, disable)
                     \o [i \in 1..Len(valid) |-> toRule(valid[i]).rule],
        err |-> NoError]

BuildRules(defaults, overrides, disable, custom) ==
    LET bad == {i \in 1..Len(custom) : toRule(custom[i]).err # NoError}
        first == CHOOSE i \in bad : \A j \in bad : i <= j
    IN IF bad # {} THEN [rules |-> <<>>, err |-> toRule(custom[first]).err]
       ELSE [rules |-> buildDefaults(defaults, overrides, disable)
                          \o [i \in 1..Len(custom) |-> toRule(custom[i]).rule],
             err |-> NoError]

\* BuildDefaultRules(), cut down to two rules
DefaultRules ==
    << Rule("url", << <<"a", "b">> >>, "blue", "", TRUE),
       Rule("ipv4", << <<"b">> >>, "green", "", TRUE) >>

\* the colors section of the configuration
ColorOverrides == {<<>>, [n \in {"url"} |-> "red"]}

\* its disable_builtin list
DisableLists == {<<>>, <<"URL">>, <<"ipv4", "level">>}

\* the custom rules of the configuration: two that compile and two that do not
CustomPool ==
    {CustomRule("a", "red", ""), CustomRule("b|aa", "green", "bold"),
     CustomRule("(", "red", ""), CustomRule("a[", "blue", "")}

\* the longest list of custom rules
MaxCustom == 3

CustomLists == UNION {[1..n -> CustomPool] : n \in 0..MaxCustom}

InitBuild ==
    /\ v = NewViewer(<< <<>> >>, TRUE, FALSE)
    /\ term \in TermSizes
    /\ InitLoop
    /\ tail = NoTail
    /\ \E overrides \in ColorOverrides, disable \in DisableLists, custom \in CustomLists :
           eng = [defaults |-> DefaultRules, overrides |-> overrides, disable |-> disable,
                  custom |-> custom, rules |-> <<>>, err |-> NoError, done |-> FALSE]

\* colorRules, err := color.BuildRules(defaults, cfg.Colors, cfg.DisableBuiltin, custom)
RunBuildRules ==
    /\ ~eng.done
    /\ LET r == BuildRules(eng.defaults, eng.overrides, eng.disable, eng.custom)
       IN eng' = [eng EXCEPT !.rules = r.rules, !.err = r.err, !.done = TRUE]
    /\ UNCHANGED <<v, dirty, pc, followCh, clipboard, term, lastOp, iter, tail>>

NextBuild == RunBuildRules

SpecBuild == InitBuild /\ [][NextBuild]_vars

-----------------------------------------------------------------------------
(* ui.Run and prompt, with the mode of the terminal input                  *)

MaxTyped == 4       \* bytes typed in one behaviour
MaxPending == 2     \* bytes waiting on stdin

DEL == "x7F"
SOH == "x01"

\* the bytes typed: the two prompts, a printable byte, Return, Escape, Delete, a
\* control byte, a motion and quit
PromptBytes == {"/", "?", "b", CR, ESC, DEL, SOH, "j", "q"}

\* b < 32
isControl(b) == b \in {CR, NL, ESC, SOH}

\* the initial batch of the sessions with a prompt: ASCII lines, on which
\* matchColForLine cannot panic
PromptDocs == { << <<"a", "b">> >> }

\* a setNonblock that leaves the mode of the descriptor alone
setNonblockNever(e, enable) == e

\* setNonblock := func(enable bool) { if nonblock { SetNonblock(fd, enable) } }
setNonblock(e, enable) == IF nonblock THEN [e EXCEPT !.fdNonblock = enable] ELSE e

\* eng holds the terminal: whether fd 0 is non-blocking, the bytes not yet read, the
\* buf and the direction of the open prompt, the number of bytes typed so far, and
\* whether the terminal has gone away, so that a read with nothing pending fails.
\* Run has set the descriptor non-blocking if nonblock.
InitPrompt ==
    /\ \E doc \in PromptDocs, follow \in BOOLEAN : v = NewViewer(doc, FALSE, follow)
    /\ term \in TermSizes
    /\ InitLoop
    /\ tail = NoTail
    /\ eng = [fdNonblock |-> nonblock, stdin |-> <<>>, buf |-> <<>>, dir |-> 0,
              typed |-> 0, gone |-> FALSE]

\* the user types one of bytes, of which at most maxTyped are typed in all
TypeOf(bytes, maxTyped) ==
    /\ pc \notin {"done", "panic"}
    /\ ~eng.gone
    /\ Len(eng.stdin) < MaxPending
    /\ eng.typed < maxTyped
    /\ \E b \in bytes :
           eng' = [eng EXCEPT !.stdin = Append(eng.stdin, b), !.typed = eng.typed + 1]
    /\ UNCHANGED <<v, dirty, pc, followCh, clipboard, term, lastOp, iter, tail>>

PromptType == TypeOf(PromptBytes, MaxTyped)

\* '/' and '?': setNonblock(false), and prompt up to its first ReadByte
PromptOpen ==
    /\ pc = "read"
    /\ eng.stdin # <<>>
    /\ Head(eng.stdin) \in {"/", "?"}
    /\ eng' = setNonblock([eng EXCEPT !.stdin = Tail(eng.stdin), !.buf = <<>>,
                                      !.dir = IF Head(eng.stdin) = "/" THEN 1 ELSE -1],
                          FALSE)
    /\ v' = [v EXCEPT !.Status = "", !.InPrompt = TRUE]
    /\ pc' = "prompt"
    /\ lastOp' = "prompt"
    /\ UNCHANGED dirty
    /\ InputFrame

\* the terminal goes away
Hangup ==
    /\ pc \notin {"done", "panic"}
    /\ ~eng.gone
    /\ eng' = [eng EXCEPT !.gone = TRUE]
    /\ UNCHANGED <<v, dirty, pc, followCh, clipboard, term, lastOp, iter, tail>>

\* prompt returned: InPrompt = false, setNonblock(true), and setQuery unless canceled
PromptReturn(e, op, query, canceled) ==
    /\ eng' = setNonblock([e EXCEPT !.buf = <<>>, !.dir = 0], TRUE)
    /\ IF canceled THEN Returned(op, prompt(v))
       ELSE Returned(op, setQuery(prompt(v), query, eng.dir))

\* one ReadByte of prompt that returns a byte, and its switch
PromptKey ==
    /\ pc = "prompt"
    /\ eng.stdin # <<>>
    /\ LET b == Head(eng.stdin)
           e == [eng EXCEPT !.stdin = Tail(eng.stdin)]
       IN CASE b \in {CR, NL} ->
                   PromptReturn(e, IF eng.dir = 1 THEN "/" ELSE "?", eng.buf, FALSE)
            [] b = ESC -> PromptReturn(e, "cancel", <<>>, TRUE)
            [] b \in {DEL, "x08"} ->
                   /\ eng' = [e EXCEPT !.buf = IF eng.buf = <<>> THEN <<>>
                                                ELSE SubSeq(eng.buf, 1, Len(eng.buf) - 1)]
                   /\ UNCHANGED <<v, dirty, pc, lastOp>>
            [] OTHER ->
                   /\ eng' = [e EXCEPT !.buf = IF isControl(b) THEN eng.buf
                                                ELSE Append(eng.buf, b)]
                   /\ UNCHANGED <<v, dirty, pc, lastOp>>
    /\ InputFrame

\* a ReadByte of prompt that fails: the terminal is gone, or no byte is waiting on a
\* non-blocking descriptor; prompt returns what was typed, not canceled
PromptError ==
    /\ pc = "prompt"
    /\ eng.stdin = <<>>
    /\ eng.gone \/ eng.fdNonblock
    /\ PromptReturn(eng, IF eng.gone THEN "prompt-error" ELSE "prompt-eagain",
                    eng.buf, FALSE)
    /\ InputFrame

\* a ReadByte of Run that returns a byte other than '/' and '?', and its case
PromptReadKey ==
    /\ pc = "read"
    /\ eng.stdin # <<>>
    /\ LET b == Head(eng.stdin)
       IN /\ b \notin {"/", "?"}
          /\ CASE b = "q" ->
                      /\ eng' = [eng EXCEPT !.stdin = Tail(eng.stdin)]
                      /\ pc' = "done"
                      /\ lastOp' = "q"
                      /\ UNCHANGED <<v, dirty>>
                      /\ InputFrame
               [] b \in {CR, NL} ->
                      /\ eng' = [eng EXCEPT !.stdin = Tail(eng.stdin)]
                      /\ Returned("enter", IF v.Follow THEN appendLines(v, << <<>> >>)
                                           ELSE v)
                      /\ InputFrame
               [] OTHER -> ReadKey

\* a ReadByte of Run that fails with EAGAIN: nothing is waiting on a non-blocking
\* descriptor
WouldBlock == eng.stdin = <<>> /\ eng.fdNonblock /\ ~eng.gone

PromptDrain == WouldBlock /\ Drain

PromptIdle == WouldBlock /\ Idle

\* a ReadByte of Run that fails with another error: return err
ReadError ==
    /\ pc = "read"
    /\ eng.stdin = <<>>
    /\ eng.gone
    /\ pc' = "done"
    /\ lastOp' = "error"
    /\ UNCHANGED <<v, dirty, followCh, clipboard, term, iter, tail, eng>>

\* handleEscape: its first ReadByte returns a byte, none of which is '[' here, or
\* fails
PromptEscape ==
    \/ EscFirst
    \/ /\ pc = "esc1"
       /\ eng.stdin = <<>>
       /\ eng.gone
       /\ ~nonblock
       /\ Returned("esc-other", v)
       /\ UNCHANGED eng
       /\ InputFrame

NextPrompt ==
    \/ Draw \/ NoDraw
    \/ PromptType
    \/ Hangup
    \/ PromptOpen
    \/ PromptKey
    \/ PromptError
    \/ PromptReadKey
    \/ PromptEscape
    \/ PromptDrain \/ PromptIdle
    \/ ReadError
    \/ TailDeliver

SpecPrompt == InitPrompt /\ [][NextPrompt]_vars

-----------------------------------------------------------------------------
(* color.HighlightQuery and applyColors, on strings as sequences of bytes  *)

\* the UTF-8 encodings of U+023A and of its lower case U+2C65
UpperStroke == <<"xC8", "xBA">>
LowerStroke == <<"xE2", "xB1", "xA5">>

\* the bytes of a rune of the model
utf8Bytes(r) ==
    IF r = "U+023A" THEN UpperStroke ELSE IF r = "U+2C65" THEN LowerStroke ELSE <<r>>

RECURSIVE Bytes(_)
\* []byte(string(runes))
Bytes(runes) == IF Len(runes) = 0 THEN <<>> ELSE utf8Bytes(runes[1]) \o Bytes(Tail(runes))

RECURSIVE ToLowerBytes(_)
\* strings.ToLower on the bytes of a valid UTF-8 string: the encoding of every rune is
\* replaced by the encoding of its lower case
ToLowerBytes(s) ==
    IF Len(s) = 0 THEN <<>>
    ELSE IF Len(s) >= 2 /\ SubSeq(s, 1, 2) = UpperStroke
    THEN LowerStroke \o ToLowerBytes(SubSeq(s, 3, Len(s)))
    ELSE <<toLowerRune(s[1])>> \o ToLowerBytes(Tail(s))

RECURSIVE highlightLoop(_, _, _, _, _, _)
\* the for loop of HighlightQuery, entered with start and idx, and the write of
\* line[start:] after it; a slice expression beyond the bytes of its string panics
highlightLoop(line, lowerLine, lowerQuery, n, start, idx) ==
    IF idx > Len(line) \/ idx + n > Len(line) \/ idx + n > Len(lowerLine)
    THEN [out |-> <<>>, panics |-> TRUE]
    ELSE LET next == IndexFrom(lowerLine, lowerQuery, idx + n)
             rest == IF next = -1
                     THEN [out |-> Slice(line, idx + n, Len(line)), panics |-> FALSE]
                     ELSE highlightLoop(line, lowerLine, lowerQuery, n, idx + n, next)
         IN [out |-> Slice(line, start, idx)
                         \o Wrap(Slice(line, idx, idx + n), "blue", "underline")
                         \o rest.out,
             panics |-> rest.panics]

\* HighlightQuery: the string it returns, or that it panics
HighlightQuery(line, query) ==
    LET lowerLine == ToLowerBytes(line)
        lowerQuery == ToLowerBytes(query)
        idx == Index(lowerLine, lowerQuery)
    IN IF query = <<>> \/ idx = -1 THEN [out |-> line, panics |-> FALSE]
       ELSE highlightLoop(line, lowerLine, lowerQuery, Len(query), 0, idx)

\* applyColors of a viewer with the given Rules, Plain and Query
applyColors(rules, plain, query, text) ==
    IF plain THEN [out |-> text, panics |-> FALSE]
    ELSE HighlightQuery(ApplyRules(text, rules), query)

\* lines, as runes: all of up to three runes over a, b, B and U+023A
HighlightLines == UNION {[1..n -> {"a", "b", "B", "U+023A"}] : n \in 0..3}

\* queries, as runes: letters of the lines, and bytes of the escape sequences that
\* Wrap writes
HighlightQueries ==
    {<<>>, <<"b">>, <<"A", "b">>, <<"b", "b">>, <<"U+023A">>, <<"m">>, <<"[", "3">>}

\* rule lists of the viewer
HighlightRules ==
    { <<>>,
      <<Rule("ab", << <<"a", "b">> >>, "red", "", TRUE)>>,
      <<Rule("b|aa", << <<"b">>, <<"a", "a">> >>, "blue", "underline", TRUE),
        Rule("a", << <<"a">> >>, "green", "bold", TRUE)>> }

\* eng holds the arguments, and what HighlightQuery returns for the line itself and
\* what applyColors returns for it
InitHighlight ==
    /\ v = NewViewer(<< <<>> >>, FALSE, FALSE)
    /\ term \in TermSizes
    /\ InitLoop
    /\ tail = NoTail
    /\ \E line \in HighlightLines, query \in HighlightQueries, rules \in HighlightRules :
           eng = [line |-> line, query |-> query, rules |-> rules,
                  hq |-> [out |-> <<>>, panics |-> FALSE],
                  out |-> [out |-> <<>>, panics |-> FALSE], done |-> FALSE]

\* color.HighlightQuery(line, query), and applyColors(line) with Plain unset
RunHighlight ==
    /\ ~eng.done
    /\ eng' = [eng EXCEPT !.hq = HighlightQuery(Bytes(eng.line), Bytes(eng.query)),
                          !.out = applyColors(eng.rules, FALSE, Bytes(eng.query),
                                              Bytes(eng.line)),
                          !.done = TRUE]
    /\ UNCHANGED <<v, dirty, pc, followCh, clipboard, term, lastOp, iter, tail>>

NextHighlight == RunHighlight

SpecHighlight == InitHighlight /\ [][NextHighlight]_vars

-----------------------------------------------------------------------------
(* Viewer: renderSegment, on ASCII lines, whose runes are their bytes      *)

reverseOn == <<ESC, "[", "7", "m">>
reverseOff == <<ESC, "[", "2", "7", "m">>

segment(start, end) == [start |-> start, end |-> end]

\* wrapSegments
wrapSegments(s, line, width0) ==
    LET width == IF width0 < 1 THEN 1 ELSE width0
    IN IF ~s.Wrap THEN <<segment(0, Len(line))>>
       ELSE IF Len(line) = 0 THEN <<segment(0, 0)>>
       ELSE [k \in 1..((Len(line) + width - 1) \div width) |->
                segment((k - 1) * width, Min(k * width, Len(line)))]

RECURSIVE ReplaceAll(_, _, _)
\* strings.ReplaceAll
ReplaceAll(s, old, new) ==
    LET at == Index(s, old)
    IN IF at = -1 THEN s
       ELSE Slice(s, 0, at) \o new \o ReplaceAll(Slice(s, at + Len(old), Len(s)), old, new)

applyReverse(s) ==
    IF s = <<>> THEN s ELSE reverseOn \o ReplaceAll(s, reset, reset \o reverseOn) \o reverseOff

\* the window of the line that renderSegment shows
renderWindow(s, lineIdx, segStart0, segEnd0, width) ==
    LET n == Len(s.Lines[lineIdx + 1])
        segStart == IF segStart0 < 0 THEN 0 ELSE segStart0
        segEnd == IF segEnd0 > n THEN n ELSE segEnd0
        start == IF s.Wrap THEN segStart ELSE Max(s.HOffset, 0)
        end == IF s.Wrap THEN segEnd ELSE Min(start + width, n)
    IN segment(IF start > end THEN end ELSE start, end)

\* the loop of renderSegment over the selection ranges: the parts of them inside the
\* window, counted from its start
renderOverlaps(ranges, win) ==
    LET clip(r) == segment(Max(r.start, win.start), Min(r.end, win.end))
        kept == SelectSeq(ranges, LAMBDA r : /\ ~(r.end < win.start \/ r.start > win.end)
                                             /\ clip(r).start < clip(r).end)
    IN [k \in 1..Len(kept) |->
           segment(clip(kept[k]).start - win.start, clip(kept[k]).end - win.start)]

RECURSIVE renderPieces(_, _, _, _, _)
\* the loop of renderSegment over the overlaps and the write of the rest
renderPieces(rules, plain, query, subRunes, todo) ==
    IF Len(todo.overlaps) = 0
    THEN IF todo.pos < Len(subRunes)
         THEN applyColors(rules, plain, query, Slice(subRunes, todo.pos, Len(subRunes))).out
         ELSE <<>>
    ELSE LET r == todo.overlaps[1]
         IN (IF r.start > todo.pos
             THEN applyColors(rules, plain, query, Slice(subRunes, todo.pos, r.start)).out
             ELSE <<>>)
                \o applyReverse(applyColors(rules, plain, query,
                                            Slice(subRunes, r.start, r.end)).out)
                \o renderPieces(rules, plain, query, subRunes,
                                [overlaps |-> Tail(todo.overlaps), pos |-> r.end])

\* fmt.Sprintf("%*d ", v.lineNumberWidth(), lineIdx+1) where line numbers are shown
linePrefix(s, lineIdx) ==
    IF s.LineNumbers THEN padLeft(Itoa(lineIdx + 1), lineNumberWidth(s)) \o <<" ">>
    ELSE <<>>

\* renderSegment of a viewer with the given Rules and Plain
renderSegment(s, rules, plain, lineIdx, segStart, segEnd, width) ==
    LET win == renderWindow(s, lineIdx, segStart, segEnd, width)
        subRunes == Slice(s.Lines[lineIdx + 1], win.start, win.end)
        overlaps == renderOverlaps(selectionRangesForLine(s, lineIdx), win)
    IN linePrefix(s, lineIdx)
           \o (IF Len(overlaps) = 0 THEN applyColors(rules, plain, s.Query, subRunes).out
               ELSE renderPieces(rules, plain, s.Query, subRunes,
                                 [overlaps |-> overlaps, pos |-> 0]))

\* the lines rendered: all of one to four bytes over a and b
RenderLines == UNION {[1..n -> {"a", "b"}] : n \in 1..4}

\* the widths of the terminal
RenderWidths == 1..4

\* the views of a one-line document: with or without line numbers and wrap, the
\* cursor in the line, a horizontal offset that keeps the cursor in the window, and
\* no selection or a char selection from an anchor in the line
RenderViewers(line, totalWidth) ==
    { [NewViewer(<<line>>, ln, FALSE) EXCEPT
           !.Wrap = wrap, !.HOffset = h, !.CursorCol = c, !.GoalCol = c,
           !.SelectMode = IF a = -1 THEN SelectNone ELSE SelectChar,
           !.SelectStart = IF a = -1 THEN NilPos ELSE Position(0, a)] :
        <<ln, wrap, h, c, a>> \in
            {t \in BOOLEAN \X BOOLEAN \X (0..3) \X (0..3) \X (-1..3) :
                LET w == contentWidth(NewViewer(<<line>>, t[1], FALSE), totalWidth)
                IN /\ t[4] < Len(line)
                   /\ t[5] < Len(line)
                   /\ t[2] => t[3] = 0
                   /\ t[3] <= t[4]
                   /\ t[4] < t[3] + w
                   /\ t[3] <= Max(Len(line) - w, 0)} }

\* eng holds the rules, the segment of the line that draw passes, and the string
\* renderSegment returns
InitRender ==
    /\ \E line \in RenderLines, totalWidth \in RenderWidths :
           /\ v \in RenderViewers(line, totalWidth)
           /\ term = [w |-> totalWidth, h |-> 2]
    /\ InitLoop
    /\ tail = NoTail
    /\ \E rules \in HighlightRules,
          k \in 1..Len(wrapSegments(v, v.Lines[1], contentWidth(v, term.w))) :
           eng = [rules |-> rules,
                  seg |-> wrapSegments(v, v.Lines[1], contentWidth(v, term.w))[k],
                  out |-> <<>>, done |-> FALSE]

\* display := v.renderSegment(lineIdx, seg.start, seg.end, contentWidth) of draw
RunRender ==
    /\ ~eng.done
    /\ eng' = [eng EXCEPT !.out = renderSegment(v, eng.rules, FALSE, 0, eng.seg.start,
                                                eng.seg.end, contentWidth(v, term.w)),
                          !.done = TRUE]
    /\ UNCHANGED <<v, dirty, pc, followCh, clipboard, term, lastOp, iter, tail>>

NextRender == RunRender

SpecRender == InitRender /\ [][NextRender]_vars

(* The same loop under the scheduling of the program, in follow sessions   *)
(* where the user opens the prompt, presses Return or quits                *)

MaxLiveTyped == 2   \* bytes typed in one of these behaviours

LiveBytes == {"/", CR, "q"}

InitPromptLive == InitPrompt /\ v.Follow

LiveType == TypeOf(LiveBytes, MaxLiveTyped)

\* every ReadByte of Run returns: with a byte or with EAGAIN
ReadStep == PromptOpen \/ PromptReadKey \/ PromptDrain \/ PromptIdle

NextPromptLive ==
    \/ Draw \/ NoDraw
    \/ LiveType
    \/ PromptOpen
    \/ PromptKey
    \/ PromptReadKey
    \/ PromptDrain \/ PromptIdle
    \/ TailDeliver

\* the loop runs on: it passes its top, each ReadByte of Run returns, and a ReadByte
\* of prompt returns once a byte is waiting
SpecPromptLive ==
    /\ InitPromptLive
    /\ [][NextPromptLive]_vars
    /\ WF_vars(Draw \/ NoDraw)
    /\ WF_vars(ReadStep)
    /\ WF_vars(PromptKey)

-----------------------------------------------------------------------------
(* Viewer: the loops of the word motions, with the line and rune indices   *)
(* they read and a count of their iterations                               *)

NoReads == [lines |-> {}, runes |-> {}]

\* v.Lines[i] was evaluated
readLine(acc, i) == [acc EXCEPT !.lines = @ \cup {i}]

\* line[k] of line i was evaluated for the k of ks
readRunes(acc, i, ks) == [acc EXCEPT !.runes = @ \cup {<<i, k>> : k \in ks}]

\* the motion returned, or stopped at an index out of range
scanEnd(st, acc) == [state |-> st, lines |-> acc.lines, runes |-> acc.runes, ends |-> TRUE]

\* the motion is still in its loop after the iterations counted
scanOut(st, acc) == [state |-> st, lines |-> acc.lines, runes |-> acc.runes, ends |-> FALSE]

\* a loop over the runes that evaluates line[pos] before comparing pos with len(line)
loopReadsUnguarded(line, pos, word) == pos..Len(line)

RECURSIVE loopReads(_, _, _)
\* the indices read by: for pos < len(line) && isWordRune(line[pos]) == word { pos++ }
loopReads(line, pos, word) ==
    IF pos < Len(line)
    THEN {pos} \cup (IF isWordRune(line[pos + 1]) = word THEN loopReads(line, pos + 1, word)
                     ELSE {})
    ELSE {}

RECURSIVE startReads(_, _)
\* the indices read by: for col > 0 && isWordRune(line[col-1]) { col-- }
startReads(line, col) ==
    IF col > 0
    THEN {col - 1} \cup (IF isWordRune(line[col]) THEN startReads(line, col - 1) ELSE {})
    ELSE {}

RECURSIVE wordForwardScan(_, _, _, _, _)
\* the loop of moveWordForward
wordForwardScan(s, lineIdx, col0, fuel, acc) ==
    IF fuel = 0 THEN scanOut(s, acc)
    ELSE IF lineIdx < 0 \/ lineIdx >= Len(s.Lines) THEN scanEnd(s, readLine(acc, lineIdx))
    ELSE LET line == s.Lines[lineIdx + 1]
             isLast == lineIdx + 1 >= Len(s.Lines)
             col == IF col0 < 0 THEN 0 ELSE col0
             a1 == readLine(acc, lineIdx)
         IN IF Len(line) = 0
            THEN IF isLast THEN scanEnd(landClamped(s, lineIdx, 0), a1)
                 ELSE wordForwardScan(s, lineIdx + 1, 0, fuel - 1, a1)
            ELSE IF col >= Len(line)
            THEN IF isLast THEN scanEnd(landClamped(s, lineIdx, Len(line) - 1), a1)
                 ELSE wordForwardScan(s, lineIdx + 1, 0, fuel - 1, a1)
            ELSE LET onWord == isWordRune(line[col + 1])
                     p1 == IF onWord THEN skipWord(line, col) ELSE col
                     pos == skipNonWord(line, p1)
                     a2 == readRunes(a1, lineIdx,
                                     {col} \cup (IF onWord THEN loopReads(line, col, TRUE)
                                                 ELSE {})
                                           \cup loopReads(line, p1, FALSE))
                 IN IF pos < Len(line) THEN scanEnd(landOnWord(s, lineIdx, pos), a2)
                    ELSE IF isLast THEN scanEnd(landClamped(s, lineIdx, Len(line) - 1), a2)
                    ELSE wordForwardScan(s, lineIdx + 1, 0, fuel - 1, a2)

RECURSIVE wordBackwardSkipScan(_, _, _, _, _)
\* the inner loop of moveWordBackward and the loop to the start of the word
wordBackwardSkipScan(s, lineIdx, col, fuel, acc) ==
    IF fuel = 0 THEN scanOut(s, acc)
    ELSE IF lineIdx < 0 THEN scanEnd(landClamped(s, 0, 0), acc)
    ELSE IF lineIdx >= Len(s.Lines) THEN scanEnd(s, readLine(acc, lineIdx))
    ELSE LET line == s.Lines[lineIdx + 1]
             a1 == readLine(acc, lineIdx)
         IN IF Len(line) = 0 THEN wordBackwardSkipScan(s, lineIdx - 1, 0, fuel - 1, a1)
            ELSE IF col < 0
            THEN IF lineIdx - 1 >= 0
                 THEN wordBackwardSkipScan(s, lineIdx - 1, Len(s.Lines[lineIdx]) - 1,
                                           fuel - 1, readLine(a1, lineIdx - 1))
                 ELSE scanEnd(landClamped(s, 0, 0), a1)
            ELSE IF col >= Len(line) THEN scanEnd(s, readRunes(a1, lineIdx, {col}))
            ELSE IF isWordRune(line[col + 1])
            THEN scanEnd(landOnWord(s, lineIdx, wordStart(line, col)),
                         readRunes(a1, lineIdx, {col} \cup startReads(line, col)))
            ELSE wordBackwardSkipScan(s, lineIdx, col - 1, fuel - 1,
                                      readRunes(a1, lineIdx, {col}))

RECURSIVE wordBackwardScan(_, _, _, _, _)
\* the outer loop of moveWordBackward
wordBackwardScan(s, lineIdx, col0, fuel, acc) ==
    IF fuel = 0 THEN scanOut(s, acc)
    ELSE IF lineIdx < 0 THEN scanEnd(landClamped(s, 0, 0), acc)
    ELSE IF lineIdx >= Len(s.Lines) THEN scanEnd(s, readLine(acc, lineIdx))
    ELSE LET line == s.Lines[lineIdx + 1]
             c1 == IF col0 > Len(line) - 1 THEN Len(line) - 1 ELSE col0
             col == IF c1 < 0 THEN Len(line) - 1 ELSE c1
             a1 == readLine(acc, lineIdx)
         IN IF Len(line) = 0 THEN wordBackwardScan(s, lineIdx - 1, 0, fuel - 1, a1)
            ELSE IF col = 0
            THEN IF lineIdx - 1 >= 0
                 THEN wordBackwardScan(s, lineIdx - 1, Len(s.Lines[lineIdx]) - 1, fuel - 1,
                                       readLine(a1, lineIdx - 1))
                 ELSE wordBackwardScan(s, lineIdx - 1, col, fuel - 1, a1)
            ELSE wordBackwardSkipScan(s, lineIdx, col - 1, fuel - 1, a1)

RECURSIVE wordEndScan(_, _, _, _, _)
\* the loop of moveWordEnd
wordEndScan(s, lineIdx, col0, fuel, acc) ==
    IF fuel = 0 THEN scanOut(s, acc)
    ELSE IF lineIdx < 0 \/ lineIdx >= Len(s.Lines) THEN scanEnd(s, readLine(acc, lineIdx))
    ELSE LET line == s.Lines[lineIdx + 1]
             isLast == lineIdx + 1 >= Len(s.Lines)
             col == IF col0 < 0 THEN 0 ELSE col0
             a1 == readLine(acc, lineIdx)
         IN IF Len(line) = 0
            THEN IF isLast THEN scanEnd(landClamped(s, lineIdx, 0), a1)
                 ELSE wordEndScan(s, lineIdx + 1, 0, fuel - 1, a1)
            ELSE IF col >= Len(line)
            THEN IF isLast THEN scanEnd(landClamped(s, lineIdx, Len(line) - 1), a1)
                 ELSE wordEndScan(s, lineIdx + 1, 0, fuel - 1, a1)
            ELSE IF isWordRune(line[col + 1])
            THEN scanEnd(landOnWord(s, lineIdx, skipWord(line, col) - 1),
                         readRunes(a1, lineIdx, {col} \cup loopReads(line, col, TRUE)))
            ELSE LET pos == skipNonWord(line, col)
                     a2 == readRunes(a1, lineIdx, {col} \cup loopReads(line, col, FALSE))
                 IN IF pos < Len(line)
                    THEN scanEnd(landClamped(s, lineIdx, skipWord(line, pos) - 1),
                                 readRunes(a2, lineIdx, loopReads(line, pos, TRUE)))
                    ELSE IF isLast
                    THEN scanEnd(landClamped(s, lineIdx, Len(line) - 1), a2)
                    ELSE wordEndScan(s, lineIdx + 1, 0, fuel - 1, a2)

RECURSIVE RuneTotal(_)
\* the runes of a document
RuneTotal(lines) == IF Len(lines) = 0 THEN 0 ELSE Len(lines[1]) + RuneTotal(Tail(lines))

\* more iterations than a loop that visits every rune and every line twice makes
ScanFuel(s) == 2 * (RuneTotal(s.Lines) + Len(s.Lines)) + 2

\* the word motion of a key, with its reads
wordScan(op, s) ==
    IF Len(s.Lines) = 0 THEN scanEnd(s, NoReads)
    ELSE CASE op = "w" -> wordForwardScan(s, s.Cursor, s.CursorCol, ScanFuel(s), NoReads)
           [] op = "b" -> wordBackwardScan(s, s.Cursor, s.CursorCol, ScanFuel(s), NoReads)
           [] op = "e" -> wordEndScan(s, s.Cursor, s.CursorCol, ScanFuel(s), NoReads)

\* the lines of the documents scanned: all of up to three runes over a and -
ScanLines == UNION {[1..n -> {"a", "-"}] : n \in 0..3}

\* the documents: one, two or three of these lines
ScanDocs == UNION {[1..n -> ScanLines] : n \in 1..3}

\* a document and a cursor on one of its runes, or at column 0 of an empty line; eng
\* holds the key and the reads of its motion
InitScan ==
    /\ \E doc \in ScanDocs :
           \E cur \in 0..(Len(doc) - 1) :
               \E col \in 0..Max(Len(doc[cur + 1]) - 1, 0) :
                   v = [NewViewer(doc, FALSE, FALSE) EXCEPT
                            !.Cursor = cur, !.CursorCol = col, !.GoalCol = col]
    /\ term \in TermSizes
    /\ dirty = FALSE
    /\ pc = "read"
    /\ followCh = <<>>
    /\ clipboard = <<>>
    /\ lastOp = "draw"
    /\ iter = NewIter
    /\ tail = NoTail
    /\ eng = [op |-> "", scan |-> scanEnd(v, NoReads), done |-> FALSE]

\* 'w', 'b', 'e'
RunScan ==
    /\ ~eng.done
    /\ \E op \in {"w", "b", "e"} :
           /\ Returned(op, keySwitch(v, op))
           /\ eng' = [op |-> op, scan |-> wordScan(op, v), done |-> TRUE]
    /\ InputFrame

NextScan == RunScan

SpecScan == InitScan /\ [][NextScan]_vars

-----------------------------------------------------------------------------
(* Properties                                                              *)

\* the step just taken was the handler of a key or of a batch
JustHandled == pc = "loop" /\ dirty

\* a step of the main loop that runs the handler named op
HandlerStep(op) == pc = "read" /\ pc' = "loop" /\ lastOp' = op

CursorLine == v.Lines[v.Cursor + 1]

\* C1: in every state of a session over a non-empty line store, whatever commands
\* ran and in whatever order, the cursor line is an index of the line store and the
\* cursor column is at most the last rune of that line (0 on an empty line).
C1_CursorInBounds ==
    /\ 0 <= v.Cursor
    /\ v.Cursor < Len(v.Lines)
    /\ 0 <= v.CursorCol
    /\ v.CursorCol <= Max(0, Len(CursorLine) - 1)

\* C3: appendLines with a non-empty batch appends the batch in order after the
\* stored lines, which stay as they were; a cursor on the last line moves to the new
\* last line, a cursor on an earlier line leaves cursor, columns and scroll alone.
C3_AppendFrame ==
    [][\A op \in {"append", "enter"} :
          (HandlerStep(op) /\ v.Follow) =>
              LET batch == IF op = "append" THEN Head(followCh).lines ELSE << <<>> >>
              IN /\ Len(batch) > 0
                 /\ v'.Lines = v.Lines \o batch
                 /\ IF v.Cursor = Len(v.Lines) - 1
                    THEN v'.Cursor = Len(v'.Lines) - 1
                    ELSE /\ v'.Cursor = v.Cursor
                         /\ v'.CursorCol = v.CursorCol
                         /\ v'.GoalCol = v.GoalCol
                         /\ v'.Top = v.Top
                         /\ v'.TopSub = v.TopSub
                         /\ v'.HOffset = v.HOffset]_vars

\* a batch arrived while the user was reading an earlier line, at a column
C3_Witness ==
    /\ JustHandled
    /\ lastOp = "append"
    /\ v.Cursor < Len(v.Lines) - 2
    /\ v.CursorCol > 0

SelectionLo == Min(v.SelectStart.Line, v.Cursor)
SelectionHi == Max(v.SelectStart.Line, v.Cursor)

KeyMode(op) ==
    CASE op = "v" -> SelectChar
      [] op = "V" -> SelectLine
      [] op = "ctrl-v" -> SelectBlock

\* the three toggle keys: same mode clears; another mode anchors at (Cursor, col(mode))
ToggleContract(col(_)) ==
    \A op \in {"v", "V", "ctrl-v"} :
        HandlerStep(op) =>
            IF v.SelectMode = KeyMode(op)
            THEN v'.SelectMode = SelectNone /\ v'.SelectStart = NilPos
            ELSE /\ v'.SelectMode = KeyMode(op)
                 /\ v'.SelectStart = Position(v.Cursor, col(KeyMode(op)))

AnchorIffMode == (v.SelectMode # SelectNone) <=> (v.SelectStart # NilPos)

CursorColOf(mode) == v.CursorCol

AnchorColOf(mode) == IF mode = SelectBlock THEN v.GoalCol ELSE v.CursorCol

\* C7, as claimed: toggling the active mode clears the selection, toggling another
\* mode makes it active with the anchor at the cursor position (Cursor, CursorCol);
\* a mode is active exactly when an anchor is present.
C7_AnchorAtCursor == []AnchorIffMode /\ [][ToggleContract(CursorColOf)]_vars

\* C7, amended: as claimed, except that a block selection is anchored at the goal
\* column: the anchor is (Cursor, GoalCol) for the block mode and (Cursor, CursorCol)
\* for the char and line modes.
C7_AnchorAtCursorOrGoal == []AnchorIffMode /\ [][ToggleContract(AnchorColOf)]_vars

\* a block selection was started while the goal column lay beyond the line's end,
\* replacing a selection of another mode anchored elsewhere
C7_Witness ==
    /\ JustHandled
    /\ lastOp = "ctrl-v"
    /\ v.SelectMode = SelectBlock
    /\ v.SelectStart.Line = v.Cursor
    /\ v.SelectStart.Col = v.GoalCol
    /\ v.GoalCol > v.CursorCol

\* the runes of a line at the columns lo .. hi that the line has
RunesAt(line, lo, hi) == Slice(line, Max(lo, 0), Min(hi + 1, Len(line)))

CopiedText == clipboard[1]

JustCopied == JustHandled /\ lastOp = "y" /\ v.SelectMode # SelectNone

\* C8: a char selection with anchor and cursor on one line copies the runes of that
\* line from the smaller to the larger of the two columns, both included.
C8_CopyCharOneLine ==
    (JustCopied /\ v.SelectMode = SelectChar /\ v.SelectStart.Line = v.Cursor) =>
        /\ Len(clipboard) = 1
        /\ CopiedText = RunesAt(CursorLine, Min(v.SelectStart.Col, v.CursorCol),
                                Max(v.SelectStart.Col, v.CursorCol))

\* several runes were copied with the anchor after the cursor
C8_Witness ==
    /\ JustCopied
    /\ v.SelectMode = SelectChar
    /\ v.SelectStart.Line = v.Cursor
    /\ v.SelectStart.Col > v.CursorCol + 1
    /\ Len(CopiedText) = v.SelectStart.Col - v.CursorCol + 1

\* the columns a list of ranges covers
ColumnsOf(ranges) == UNION {r.start..(r.end - 1) : r \in {ranges[k] : k \in 1..Len(ranges)}}

RECURSIVE RunesOfRanges(_, _)
\* the runes of line inside the ranges, in order
RunesOfRanges(line, ranges) ==
    IF Len(ranges) = 0 THEN <<>>
    ELSE Slice(line, ranges[1].start, ranges[1].end) \o RunesOfRanges(line, Tail(ranges))

\* the selected lines, lowest first
SelectedLines == [k \in 1..(SelectionHi - SelectionLo + 1) |-> SelectionLo + k - 1]

\* highlight and copy both use the interval between the anchor column and col
BlockIntervalIs(col) ==
    LET lo == Min(v.SelectStart.Col, col)
        hi == Max(v.SelectStart.Col, col)
    IN \A k \in 1..Len(SelectedLines) :
           LET i == SelectedLines[k]
               line == v.Lines[i + 1]
           IN /\ ColumnsOf(selectionRangesForLine(v, i))
                     = {c \in lo..hi : c < Len(line)}
              /\ JustCopied => copyPieces(v)[k] = RunesAt(line, lo, hi)

\* C9: a block selection selects, on every line from the anchor line to the cursor
\* line, the interval between the anchor column and the cursor column clipped to the
\* line; the interval is the same for all lines, for the highlight and for the copy,
\* whether the cursor column is read as CursorCol or as the goal column.
C9_BlockInterval ==
    (v.SelectMode = SelectBlock) => BlockIntervalIs(v.CursorCol) \/ BlockIntervalIs(v.GoalCol)

\* C10: the text copySelection hands to the clipboard is the newline-joined runes of
\* selectionRangesForLine over the selected lines, lowest line first.
C10_CopyIsHighlight ==
    JustCopied =>
        CopiedText = Flatten([k \in 1..Len(SelectedLines) |->
                                 RunesOfRanges(v.Lines[SelectedLines[k] + 1],
                                               selectionRangesForLine(v, SelectedLines[k]))],
                             <<NL>>)

\* C11: y changes nothing of the viewer but the status: "no selection" without an
\* active selection, and then nothing is handed to the clipboard; "copied" or, when
\* the clipboard write fails, "clipboard failed" with one.
C11_CopyFrame ==
    [][HandlerStep("y") =>
          /\ \E st \in {"no selection", "copied", "clipboard failed"} :
                 v' = [v EXCEPT !.Status = st]
          /\ IF v.SelectMode = SelectNone
             THEN v'.Status = "no selection" /\ clipboard' = clipboard
             ELSE v'.Status # "no selection" /\ clipboard' = <<copyText(v)>>]_vars

\* a clipboard write failed in the middle of a search, with a selection begun on
\* another line
C11_Witness ==
    /\ JustHandled
    /\ lastOp = "y"
    /\ v.Status = "clipboard failed"
    /\ v.SelectMode # SelectNone
    /\ v.SelectStart.Line # v.Cursor
    /\ Len(v.Matches) > 0

\* a step in which the key op was read, whether its handler returned or panicked
KeyStep(op) == pc = "read" /\ pc' \in {"loop", "panic"} /\ lastOp' = op

\* line contains q, letter case ignored
ContainsFold(line, q) == Contains(ToLower(line), ToLower(q))

\* the indices of the lines that contain q
MatchingSet(lines, q) == {i \in 0..(Len(lines) - 1) : ContainsFold(lines[i + 1], q)}

\* seq is the ascending list of the members of set
IsAscendingListOf(seq, set) ==
    /\ {seq[k] : k \in 1..Len(seq)} = set
    /\ \A k \in 1..(Len(seq) - 1) : seq[k] < seq[k + 1]

\* the match a search in direction dir picks from line cur: the nearest in that
\* direction, cur included, else the first (forward) or the last (backward)
NearestMatch(set, cur, dir) ==
    LET ahead == IF dir > 0 THEN {i \in set : i >= cur} ELSE {i \in set : i <= cur}
        among == IF ahead = {} THEN set ELSE ahead
    IN IF dir > 0 THEN CHOOSE i \in among : \A j \in among : i <= j
       ELSE CHOOSE i \in among : \A j \in among : i >= j

\* the rune column at which the first occurrence of q in line starts
FirstOccurrence(line, q) == Index(ToLower(line), ToLower(q))

SearchDir(op) == IF op = "/" THEN 1 ELSE -1

\* C12: a search whose query matches some line lists the matching lines in ascending
\* order, selects the match nearest to the cursor line in the direction of the search
\* (wrapping to the first or last), and puts the cursor on that line at the rune
\* column where the first occurrence of the query starts.
C12_SetQueryMatch ==
    [][\A op \in {"/", "?"} :
          (KeyStep(op) /\ MatchingSet(v.Lines, v'.Query) # {} /\ v'.Query # <<>>) =>
              /\ pc' = "loop"
              /\ IsAscendingListOf(v'.Matches, MatchingSet(v.Lines, v'.Query))
              /\ v'.MatchIndex \in 0..(Len(v'.Matches) - 1)
              /\ v'.Matches[v'.MatchIndex + 1] = v'.Cursor
              /\ v'.Cursor = NearestMatch(MatchingSet(v.Lines, v'.Query), v.Cursor,
                                          SearchDir(op))
              /\ v'.CursorCol = FirstOccurrence(v'.Lines[v'.Cursor + 1], v'.Query)]_vars

\* C13: a search whose query, trimmed, is not empty and matches no line sets the
\* status to "no matches", leaves the match list empty and leaves the cursor line,
\* the cursor column, the goal column and the scroll position as they were.
C13_NoMatchFrame ==
    [][\A op \in {"/", "?"} :
          (KeyStep(op) /\ v'.Query # <<>> /\ MatchingSet(v.Lines, v'.Query) = {}) =>
              /\ pc' = "loop"
              /\ v'.Status = "no matches"
              /\ v'.Matches = <<>>
              /\ v'.Cursor = v.Cursor /\ v'.CursorCol = v.CursorCol
              /\ v'.GoalCol = v.GoalCol
              /\ v'.Top = v.Top /\ v'.TopSub = v.TopSub /\ v'.HOffset = v.HOffset]_vars

\* a search found nothing while the cursor was away from the top, after a search
\* that had found something
C13_Witness ==
    /\ JustHandled
    /\ lastOp \in {"/", "?"}
    /\ v.Status = "no matches"
    /\ v.Query # <<>>
    /\ v.Cursor > 0
    /\ v.CursorCol > 0
    /\ v.GoalCol > v.CursorCol

MatchDir(op) == IF op = "n" THEN 1 ELSE -1

\* C14: n and N step the match index by one, cyclically over the match list, and put
\* the cursor on the line of the match now selected; with an empty match list they
\* change nothing but the status, which becomes "no matches".
C14_NextMatchCycles ==
    [][\A op \in {"n", "N"} :
          KeyStep(op) =>
              /\ pc' = "loop"
              /\ IF Len(v.Matches) = 0
                 THEN v' = [v EXCEPT !.Status = "no matches"]
                 ELSE /\ v'.Matches = v.Matches
                      /\ v'.MatchIndex = (v.MatchIndex + MatchDir(op)) % Len(v.Matches)
                      /\ v'.Cursor = v.Matches[v'.MatchIndex + 1]]_vars

\* C15: whenever a query is set, the match list is the ascending list of exactly the
\* lines of the line store, appended lines included, that contain the query.
C15_MatchesCurrent ==
    v.Query # <<>> => IsAscendingListOf(v.Matches, MatchingSet(v.Lines, v.Query))

\* the last column of the line with index i, 0 for an empty line
LastCol(i) == Max(0, Len(v.Lines[i + 1]) - 1)

VerticalDelta(op) == IF op \in {"j", "down"} THEN 1 ELSE -1

\* C16: j, k and the up and down arrows move the cursor line by one, kept within the
\* line store, leave the goal column alone and set the cursor column to the goal
\* column or, on a line that does not reach it, to the line's last column.
C16_VerticalMotion ==
    [][\A op \in {"j", "k", "up", "down"} :
          HandlerStep(op) =>
              /\ v'.Cursor = Min(Max(v.Cursor + VerticalDelta(op), 0), Len(v.Lines) - 1)
              /\ v'.GoalCol = v.GoalCol
              /\ v'.CursorCol = Min(v.GoalCol, LastCol(v'.Cursor))]_vars

\* the cursor came down from a line shorter than the goal column onto a line that
\* reaches it, and is back at the goal column
C16_Witness ==
    /\ JustHandled
    /\ lastOp = "j"
    /\ v.Cursor > 0
    /\ v.GoalCol > LastCol(v.Cursor - 1)
    /\ v.CursorCol = v.GoalCol

\* the column a horizontal key aims at, before it is clamped to the line
TargetCol(op) ==
    CASE op \in {"h", "left"} -> v.CursorCol - 1
      [] op \in {"l", "right"} -> v.CursorCol + 1
      [] op \in {"0", "I"} -> 0
      [] op \in {"$", "A"} -> LastCol(v.Cursor)

\* C17: h, l, the left and right arrows, 0, I, $ and A leave the cursor line alone,
\* set the cursor column to their target column clamped to the line, and set the
\* goal column to the new cursor column.
C17_HorizontalMotion ==
    [][\A op \in {"h", "l", "left", "right", "0", "I", "$", "A"} :
          HandlerStep(op) =>
              /\ v'.Cursor = v.Cursor
              /\ v'.CursorCol = Min(Max(TargetCol(op), 0), LastCol(v.Cursor))
              /\ v'.GoalCol = v'.CursorCol]_vars

\* h stepped back from the last column of a line further down
C17_Witness ==
    /\ JustHandled
    /\ lastOp = "h"
    /\ v.Cursor > 0
    /\ v.CursorCol = LastCol(v.Cursor) - 1
    /\ v.CursorCol > 0
    /\ v.GoalCol = v.CursorCol

\* the cursor positions of the document, as <<line, column>>
DocPositions ==
    UNION {{<<i, c>> : c \in 0..LastCol(i)} : i \in 0..(Len(v.Lines) - 1)}

\* p comes before q in document order
Before(p, q) == p[1] < q[1] \/ (p[1] = q[1] /\ p[2] < q[2])

CursorPos == <<v.Cursor, v.CursorCol>>

\* a word-constituent run starts at p: at column 0 or after a non-word rune
IsWordStart(p) ==
    LET line == v.Lines[p[1] + 1]
    IN /\ Len(line) > 0
       /\ isWordRune(line[p[2] + 1])
       /\ (p[2] = 0 \/ ~isWordRune(line[p[2]]))

\* the places where w may stop: the starts of words and the empty lines after the cursor
ForwardStops ==
    {p \in DocPositions : Before(CursorPos, p) /\ (IsWordStart(p) \/ v.Lines[p[1] + 1] = <<>>)}

\* the first, in document order, of a non-empty set of positions
FirstOf(ps) == CHOOSE p \in ps : \A q \in ps : p = q \/ Before(p, q)

\* the last, in document order, of a non-empty set of positions
LastOf(ps) == CHOOSE p \in ps : \A q \in ps : p = q \/ Before(q, p)

\* C18: w puts the cursor on the first rune of the next word, on this line or a later
\* one, a word at column 0 of a later line included, or on an empty line if one
\* comes first.
C18_WordForward ==
    [][(HandlerStep("w") /\ ForwardStops # {}) =>
          <<v'.Cursor, v'.CursorCol>> = FirstOf(ForwardStops)]_vars

\* the cursor is on the last word-constituent rune of the last line
OnLastWordRune ==
    /\ v.Cursor = Len(v.Lines) - 1
    /\ Len(CursorLine) > 0
    /\ isWordRune(CursorLine[v.CursorCol + 1])
    /\ \A c \in (v.CursorCol + 2)..Len(CursorLine) : ~isWordRune(CursorLine[c])

\* C19: w with the cursor on the last word-constituent rune of the last line leaves
\* the cursor where it is, whatever follows that rune on the line.
C19_WordForwardAtEnd ==
    [][(HandlerStep("w") /\ OnLastWordRune) =>
          <<v'.Cursor, v'.CursorCol>> = CursorPos]_vars

\* the starts of the words that begin before the cursor
BackwardStarts == {p \in DocPositions : Before(p, CursorPos) /\ IsWordStart(p)}

\* C20: b puts the cursor on the first rune of the nearest word that starts before
\* the cursor, on this line or an earlier one, whatever line ends and empty lines lie
\* between; with no such word it puts the cursor at line 0, column 0.
C20_WordBackward ==
    [][HandlerStep("b") =>
          <<v'.Cursor, v'.CursorCol>> =
              IF BackwardStarts = {} THEN <<0, 0>> ELSE LastOf(BackwardStarts)]_vars

\* a word-constituent run ends at p: at the last column or before a non-word rune
IsWordEnd(p) ==
    LET line == v.Lines[p[1] + 1]
    IN /\ Len(line) > 0
       /\ isWordRune(line[p[2] + 1])
       /\ (p[2] + 1 = Len(line) \/ ~isWordRune(line[p[2] + 2]))

OnWordRune == Len(CursorLine) > 0 /\ isWordRune(CursorLine[v.CursorCol + 1])

\* the ends of the words that end at or after the cursor; with the cursor on a word
\* rune the first of them is the end of the word under the cursor
EndStops ==
    {p \in DocPositions : (p = CursorPos \/ Before(CursorPos, p)) /\ IsWordEnd(p)}

\* C21: e puts the cursor on the last rune of the word under it or, from a rune that is
\* no word rune, on the last rune of the next word, on this line or a later one; a
\* second e then leaves the cursor where the first one put it.
C21_WordEnd ==
    [][HandlerStep("e") =>
          /\ (OnWordRune \/ EndStops # {}) => <<v'.Cursor, v'.CursorCol>> = FirstOf(EndStops)
          /\ LET again == moveWordEnd(v')
             IN <<again.Cursor, again.CursorCol>> = <<v'.Cursor, v'.CursorCol>>]_vars

\* e came from an earlier line onto the end of a word: the goal column, which this
\* branch of e keeps, is one that no motion within the cursor line leaves behind
C21_Witness ==
    /\ pc = "loop"
    /\ lastOp = "e"
    /\ v.Cursor > 0
    /\ IsWordEnd(CursorPos)
    /\ v.CursorCol < LastCol(v.Cursor)
    /\ v.GoalCol > LastCol(v.Cursor)

\* the cursor of the next state is on a line of the store and within that line
NextCursorInDoc ==
    /\ v'.Cursor \in 0..(Len(v'.Lines) - 1)
    /\ v'.CursorCol \in 0..Max(0, Len(v'.Lines[v'.Cursor + 1]) - 1)

\* C22: w and e never put the cursor before the place it was at and b never puts it
\* after; on the last line with no word further on w and e stay on that line, and on
\* line 0 with no word before the cursor b stays on line 0.
C22_NoWrap ==
    [][/\ (HandlerStep("w") \/ HandlerStep("e")) =>
              /\ NextCursorInDoc
              /\ ~Before(<<v'.Cursor, v'.CursorCol>>, CursorPos)
              /\ v.Cursor = Len(v.Lines) - 1 => v'.Cursor = v.Cursor
       /\ HandlerStep("b") =>
              /\ NextCursorInDoc
              /\ ~Before(CursorPos, <<v'.Cursor, v'.CursorCol>>)
              /\ v.Cursor = 0 => v'.Cursor = 0]_vars

\* w found no word after the cursor on the last line and stopped at the end of it
C22_Witness ==
    /\ pc = "loop"
    /\ lastOp = "w"
    /\ v.Cursor = Len(v.Lines) - 1
    /\ v.CursorCol = LastCol(v.Cursor)
    /\ ~IsWordStart(CursorPos)

\* C23: W flips the wrap flag, sets the horizontal offset and the top segment to 0 and
\* leaves the cursor, the goal column, the top line, the selection and the search
\* state as they were; after the redraw a second W gives the first wrap flag back,
\* with the cursor on the same line and column.
C23_ToggleWrap ==
    [][HandlerStep("W") =>
          /\ v'.Wrap = ~v.Wrap
          /\ v'.HOffset = 0
          /\ v'.TopSub = 0
          /\ \A f \in {"Lines", "Cursor", "CursorCol", "GoalCol", "Top", "SelectStart",
                        "SelectMode", "Query", "Matches", "MatchIndex"} : v'[f] = v[f]
          /\ LET again == toggleWrap(draw(v', term.w, term.h))
             IN /\ again.Wrap = v.Wrap
                /\ <<again.Cursor, again.CursorCol>> = CursorPos]_vars

\* W was pressed with a selection and a search active, the cursor away from column 0
C23_Witness ==
    /\ pc = "loop"
    /\ lastOp = "W"
    /\ v.Wrap
    /\ v.CursorCol > 0
    /\ v.SelectMode # SelectNone
    /\ Len(v.Matches) > 0

\* the loop has just redrawn the screen
AfterRedraw == pc = "read" /\ lastOp = "draw"

\* the content height and width of the last redraw
ContentHeight == Max(1, term.h - 1)
ContentWidth == contentWidth(v, term.w)

\* C24: after every redraw, with or without wrap, the cursor's row, the distance in
\* segments from the top segment to the cursor's segment, is a row of the content
\* area, and the top line and top segment are a segment of a line of the store.
C24_CursorOnScreen ==
    AfterRedraw =>
        /\ cursorRow(v, ContentWidth) \in 0..(ContentHeight - 1)
        /\ v.Top \in 0..(Len(v.Lines) - 1)
        /\ v.TopSub \in 0..(lineSegmentCount(v, v.Top, ContentWidth) - 1)

\* a redraw in wrap mode that scrolled down to the cursor: the screen starts in the
\* middle of a wrapped line and the cursor is on the last row of several
C24_Witness ==
    /\ AfterRedraw
    /\ v.Wrap
    /\ v.TopSub > 0
    /\ ContentHeight > 1
    /\ cursorRow(v, ContentWidth) = ContentHeight - 1

\* C25: after every redraw without wrap the horizontal offset is between 0 and the
\* length of the cursor line less the content width (0 if the line is shorter), and
\* the cursor column is one of the columns shown.
C25_HOffsetWindow ==
    (AfterRedraw /\ ~v.Wrap) =>
        /\ v.HOffset \in 0..Max(0, Len(CursorLine) - ContentWidth)
        /\ v.CursorCol \in v.HOffset..(v.HOffset + ContentWidth - 1)

\* a redraw that left the view scrolled to the end of a line below the first
C25_Witness ==
    /\ AfterRedraw
    /\ ~v.Wrap
    /\ v.Cursor > 0
    /\ v.HOffset > 0
    /\ v.HOffset = Len(CursorLine) - ContentWidth
    /\ v.CursorCol = Len(CursorLine) - 1

\* p is a prefix of s
IsPrefixOf(p, s) == Len(p) <= Len(s) /\ SubSeq(s, 1, Len(p)) = p

\* the runes of a string of bytes: a complete bullet is one rune, any other byte one
RunesOf(s) ==
    LET inBullet(i) == \E j \in {i - 1, i - 2} : j >= 1 /\ j + 2 <= Len(s)
                                                 /\ SubSeq(s, j, j + 2) = Bullet
        starts == SelectSeq([i \in 1..Len(s) |-> i], LAMBDA i : ~inBullet(i))
    IN [k \in 1..Len(starts) |->
           IF starts[k] + 2 <= Len(s) /\ SubSeq(s, starts[k], starts[k] + 2) = Bullet
           THEN Bullet ELSE <<s[starts[k]]>>]

VisibleRunes(s) == RunesOf(stripANSI(s))

\* out is s cut after width visible characters, between two escape sequences, and closed
\* with the reset code
IsTruncationOf(out, s, width) ==
    /\ Len(VisibleRunes(out)) = width
    /\ IsPrefixOf(VisibleRunes(out), VisibleRunes(s))
    /\ Len(out) >= Len(reset)
    /\ SubSeq(out, Len(out) - Len(reset) + 1, Len(out)) = reset
    /\ LET kept == SubSeq(out, 1, Len(out) - Len(reset))
       IN IsPrefixOf(kept, s) /\ ~inEscape(s, Len(kept))

\* C26: truncateANSI of a styled string that shows more than width characters shows
\* exactly width characters, the first width ones of the string, cuts no escape
\* sequence and ends with the reset code.
C26_TruncateExact ==
    (eng.done /\ Len(VisibleRunes(eng.text)) > eng.width) =>
        IsTruncationOf(eng.out, eng.text, eng.width)

\* the same for strings of ASCII text and style codes
C26_TruncateExactASCII ==
    (eng.done /\ Len(VisibleRunes(eng.text)) > eng.width
              /\ \A i \in 1..Len(eng.text) : eng.text[i] \notin {"xE2", "x80", "xA2"}) =>
        IsTruncationOf(eng.out, eng.text, eng.width)

\* the first n runes of a sequence of runes, filled up with spaces to n
FitRunes(runes, n) ==
    IF Len(runes) >= n THEN SubSeq(runes, 1, n)
    ELSE runes \o [i \in 1..(n - Len(runes)) |-> <<" ">>]

\* the status line shows width characters: the left part, cut or filled up with
\* spaces to the width that the indicator leaves, and then the whole indicator
StatusFits(out, s, width) ==
    LET shown == VisibleRunes(out)
        ind == VisibleRunes(indicator(s))
    IN /\ Len(shown) = width
       /\ Len(ind) <= width
       /\ SubSeq(shown, width - Len(ind) + 1, width) = ind
       /\ SubSeq(shown, 1, width - Len(ind)) =
              FitRunes(VisibleRunes(statusLeft(s)), width - Len(ind))

\* C27: for every terminal width and every viewer state outside the prompt the
\* rendered status line is exactly as wide as the terminal, its left part is cut or
\* padded to the width the indicator leaves, and the whole "cursor+1/total" indicator
\* is its rightmost text.
C27_StatusLineFits ==
    (eng.done /\ ~v.InPrompt) => StatusFits(eng.out, v, term.w)

\* the same for the widths at which the indicator fits and the left part is cut
\* before the first bullet of the key reference
C27_StatusLineFitsShort ==
    (eng.done /\ ~v.InPrompt /\ term.w \in 3..10) => StatusFits(eng.out, v, term.w)

\* a sequence typed while the loop waited for a key has been read to its last byte
\* and the loop is back waiting for a key
Consumed(seqs) ==
    /\ pc = "read"
    /\ eng.stdin = <<>>
    /\ eng.fresh
    /\ eng.seq \in seqs

\* cursor, goal column, scroll, wrap, selection and search of a viewer
ViewState(s) ==
    <<s.Cursor, s.CursorCol, s.GoalCol, s.Top, s.TopSub, s.HOffset, s.Wrap,
      s.SelectMode, s.SelectStart, s.Query, s.Matches, s.MatchIndex>>

\* C28: once the bytes of a sequence that starts with ESC and is none of the arrow
\* and page sequences have all been read, be it cut short or a longer sequence with
\* parameters, the cursor, the goal column, the scroll position, wrap, the selection
\* and the search are what they were before; no byte of it ran as a key.
C28_UnknownEscapeIgnored ==
    Consumed(OtherSequences) => ViewState(v) = ViewState(eng.start)

\* the same for the sequences that handleEscape reads to their end, typed with no
\* selection active: a lone ESC, ESC and one byte, ESC [ and one byte
C28_ShortEscapeIgnored ==
    (/\ Consumed({seq \in OtherSequences : Len(seq) <= 2 \/ (Len(seq) = 3 /\ seq[2] = "[")})
     /\ eng.start.SelectMode = SelectNone) =>
        ViewState(v) = ViewState(eng.start)

\* the key that does what an arrow sequence is for
ArrowKey(seq) ==
    CASE seq[3] = "A" -> "k"
      [] seq[3] = "B" -> "j"
      [] seq[3] = "C" -> "l"
      [] seq[3] = "D" -> "h"

\* C29: in every state outside the prompt, with or without a selection, an arrow
\* sequence leaves the viewer in the state that k, j, l or h would have left it in.
C29_ArrowsAsKeys ==
    Consumed(ArrowSequences) =>
        v = draw(keySwitch(eng.start, ArrowKey(eng.seq)), term.w, term.h)

\* the same for the arrow sequences typed with no selection active
C29_ArrowsAsKeysNoSelection ==
    (Consumed(ArrowSequences) /\ eng.start.SelectMode = SelectNone) =>
        v = draw(keySwitch(eng.start, ArrowKey(eng.seq)), term.w, term.h)

\* the custom rules of the run whose pattern does not compile
BadCustom == {i \in 1..Len(eng.custom) : ~regexpCompile(eng.custom[i].Pattern).ok}

\* C30: BuildRules drops no rule: if a custom pattern does not compile it returns an
\* error that names such a pattern and no rules; otherwise it returns the built-in
\* rules in their order, every one of them, followed by the custom rules in theirs.
C30_BuildRulesKeepsAll ==
    eng.done =>
        IF BadCustom # {}
        THEN /\ eng.rules = <<>>
             /\ eng.err # NoError
             /\ \E i \in BadCustom : eng.err.pattern = eng.custom[i].Pattern
        ELSE /\ eng.err = NoError
             /\ Len(eng.rules) = Len(eng.defaults) + Len(eng.custom)
             /\ \A i \in 1..Len(eng.defaults) :
                    /\ eng.rules[i].Name = eng.defaults[i].Name
                    /\ eng.rules[i].Regex = eng.defaults[i].Regex
             /\ \A j \in 1..Len(eng.custom) :
                    LET r == eng.rules[Len(eng.defaults) + j]
                    IN /\ r.Regex = regexpCompile(eng.custom[j].Pattern).re
                       /\ r.Color = eng.custom[j].Color
                       /\ r.Style = eng.custom[j].Style
                       /\ r.Enabled

\* a run with a built-in rule switched off and three custom rules, all kept
C30_Witness ==
    /\ eng.done
    /\ eng.err = NoError
    /\ Len(eng.custom) = MaxCustom
    /\ \E i \in 1..Len(eng.defaults) : ~eng.rules[i].Enabled
    /\ Len(eng.rules) = Len(eng.defaults) + MaxCustom

\* a run that stopped at a pattern that does not compile, after one that does
C30_WitnessError ==
    /\ eng.done
    /\ eng.err # NoError
    /\ Len(eng.custom) > 1
    /\ regexpCompile(eng.custom[1].Pattern).ok

\* C31: in a follow session the terminal input is blocking all the time the search
\* prompt is open, and non-blocking whenever the main loop is about to redraw or to
\* read a key, so after every return of prompt: submit, Esc, read error.
C31_InputMode ==
    v.Follow =>
        /\ v.InPrompt <=> pc = "prompt"
        /\ pc = "prompt" => ~eng.fdNonblock
        /\ pc \in {"loop", "read", "esc1"} => eng.fdNonblock

\* a follow session has left a prompt in which text was typed
C31_Witness ==
    /\ v.Follow
    /\ lastOp \in {"/", "?"}
    /\ v.Query # <<>>
    /\ pc = "loop"
    /\ eng.fdNonblock

\* a follow session has left a prompt by Esc
C31_WitnessCancel == v.Follow /\ lastOp = "cancel" /\ pc = "loop" /\ eng.fdNonblock

\* a follow session has left a prompt whose read failed
C31_WitnessError == v.Follow /\ lastOp = "prompt-error" /\ pc = "loop" /\ eng.fdNonblock

RECURSIVE Highlighted(_, _, _)
\* the line from rune pos on, with every occurrence of q met by a scan from the left
\* that ignores case and resumes after each occurrence wrapped in the highlight style
Highlighted(line, q, pos) ==
    LET at == IF q = <<>> THEN -1 ELSE IndexFrom(ToLower(line), ToLower(q), pos)
    IN IF at = -1 THEN Bytes(Slice(line, pos, Len(line)))
       ELSE Bytes(Slice(line, pos, at))
                \o Wrap(Bytes(Slice(line, at, at + Len(q))), "blue", "underline")
                \o Highlighted(line, q, at + Len(q))

HighlightContract ==
    eng.done => ~eng.hq.panics /\ eng.hq.out = Highlighted(eng.line, eng.query, 0)

\* runes whose lower case has as many bytes as they have
SameLengthFold(s) == \A i \in 1..Len(s) : utf8Len(toLowerRune(s[i])) = utf8Len(s[i])

\* C32: HighlightQuery returns the text with every occurrence of the query that a
\* left-to-right, case-insensitive, non-overlapping scan finds wrapped in the
\* highlight style, and every other byte copied unchanged and in order; with an empty
\* query or without an occurrence it returns the text itself.
C32_HighlightQuery == HighlightContract

\* the same for lines and queries whose runes keep their length in lower case
C32_HighlightQuerySameLength ==
    SameLengthFold(eng.line) /\ SameLengthFold(eng.query) => HighlightContract

\* HighlightQuery panicked
C32_Panics == eng.done /\ eng.hq.panics

\* HighlightQuery returned, having wrapped other bytes than those of an occurrence
C32_WrongBytes ==
    eng.done /\ ~eng.hq.panics /\ eng.hq.out # Highlighted(eng.line, eng.query, 0)

\* the text of the line is ASCII
IsASCII(s) == \A i \in 1..Len(s) : utf8Len(s[i]) = 1 /\ utf8Len(toLowerRune(s[i])) = 1

ColorContract == eng.done => ~eng.out.panics /\ stripANSI(eng.out.out) = Bytes(eng.line)

\* C35: for a line without escape bytes, whatever the rules and the query, taking the
\* escape sequences out of HighlightQuery(ApplyRules(line, rules), query) gives the
\* line back.
C35_ColorsKeepText == IsASCII(eng.line) => ColorContract

\* the same for queries that have no byte in common with the sequences Wrap writes
C35_ColorsKeepTextLetters ==
    IsASCII(eng.line) /\ (\A i \in 1..Len(eng.query) : eng.query[i] \in {"a", "b", "A"})
        => ColorContract

\* the query pass wrapped a byte of an escape sequence of the rule pass
C35_InsideEscape ==
    /\ eng.done
    /\ IsASCII(eng.line)
    /\ ~eng.out.panics
    /\ stripANSI(eng.out.out) # Bytes(eng.line)

\* the anchor and the cursor of a char selection, the earlier in the document first
CharEndpoints ==
    LET a == v.SelectStart
        c == Position(v.Cursor, v.CursorCol)
    IN IF a.Line < c.Line \/ (a.Line = c.Line /\ a.Col <= c.Col) THEN <<a, c>>
       ELSE <<c, a>>

\* C33: a char selection over several lines selects, whichever of anchor and cursor
\* comes first, the first line from the column of the earlier endpoint to its end,
\* every line between in full, the last line from column 0 to the column of the later
\* endpoint, that column included, and nothing of the lines outside.
C33_CharSpan ==
    (v.SelectMode = SelectChar /\ v.SelectStart.Line # v.Cursor) =>
        LET first == CharEndpoints[1]
            last == CharEndpoints[2]
        IN \A i \in 0..(Len(v.Lines) - 1) :
               ColumnsOf(selectionRangesForLine(v, i)) =
                   {c \in 0..(Len(v.Lines[i + 1]) - 1) :
                       /\ i >= first.Line
                       /\ i <= last.Line
                       /\ i = first.Line => c >= first.Col
                       /\ i = last.Line => c <= last.Col}

\* the cursor is two or more lines above the anchor, both inside their lines, with a
\* line in full between them
C33_Witness ==
    /\ v.SelectMode = SelectChar
    /\ v.Cursor + 1 < v.SelectStart.Line
    /\ v.CursorCol > 0
    /\ v.SelectStart.Col > 0
    /\ v.SelectStart.Col < Len(v.Lines[v.SelectStart.Line + 1]) - 1
    /\ \E i \in (v.Cursor + 1)..(v.SelectStart.Line - 1) : Len(v.Lines[i + 1]) > 0

\* C34: the match list is strictly ascending and holds indices of lines only, and
\* while it is not empty MatchIndex is an index of it.
C34_MatchList ==
    /\ \A i \in 1..Len(v.Matches) : v.Matches[i] >= 0 /\ v.Matches[i] < Len(v.Lines)
    /\ \A i \in 1..(Len(v.Matches) - 1) : v.Matches[i] < v.Matches[i + 1]
    /\ Len(v.Matches) > 0 => v.MatchIndex >= 0 /\ v.MatchIndex < Len(v.Matches)

\* N has gone round from the first match to the last of several, in a line store
\* that has grown since the session began
C34_Witness ==
    /\ JustHandled
    /\ lastOp = "N"
    /\ Len(v.Matches) > 1
    /\ v.MatchIndex = Len(v.Matches) - 1
    /\ Len(v.Lines) > 2

\* the escape sequence of s that begins at index j
EscapeAt(s, j) ==
    LET ends == {e \in j..Len(s) : s[e] = "m"}
    IN SubSeq(s, j, CHOOSE e \in ends : \A f \in ends : e <= f)

\* the colour in force at the k-th byte of s outside the escape sequences: the last
\* sequence before it that is not one of the two for reverse video; reset where that
\* is a reset or there is none
ColorAt(s, k) ==
    LET idx == plainIndices(s)[k]
        before == {j \in 1..(idx - 1) :
                      s[j] = ESC /\ EscapeAt(s, j) \notin {reverseOn, reverseOff}}
    IN IF before = {} THEN reset
       ELSE EscapeAt(s, CHOOSE j \in before : \A i \in before : j >= i)

\* every column of the window has the colour that ApplyRules gives it in the whole line
ColorsOfWholeLine(cols) ==
    LET line == v.Lines[1]
        win == renderWindow(v, 0, eng.seg.start, eng.seg.end, contentWidth(v, term.w))
        whole == ApplyRules(line, eng.rules)
    IN \A c \in cols :
           (c >= win.start /\ c < win.end) =>
               ColorAt(eng.out, Len(linePrefix(v, 0)) + c - win.start + 1)
                   = ColorAt(whole, c + 1)

\* C36: whatever the wrap flag, the content width, the horizontal offset and the
\* selection, every character of a line that is on screen has the rule colour that
\* ApplyRules gives it when matching the whole line.
C36_ColorsViewIndependent == eng.done => ColorsOfWholeLine(0..(Len(v.Lines[1]) - 1))

\* the same for views that show the whole line, none of it selected
C36_ColorsWholeLineShown ==
    (/\ eng.done
     /\ v.SelectMode = SelectNone
     /\ renderWindow(v, 0, eng.seg.start, eng.seg.end, contentWidth(v, term.w))
            = segment(0, Len(v.Lines[1])))
        => ColorsOfWholeLine(0..(Len(v.Lines[1]) - 1))

\* C37: the line store changes only when the loop takes a batch from the channel, and
\* then by that batch appended at its end; no key adds, removes or changes a line.
C37_LinesFromBatches ==
    [][v'.Lines # v.Lines =>
           /\ lastOp' = "append"
           /\ followCh # <<>>
           /\ followCh' = Tail(followCh)
           /\ v'.Lines = v.Lines \o Head(followCh).lines]_vars

\* the same for every step but that of Return in a follow session
C37_LinesFromBatchesOrEnter ==
    [][(v'.Lines # v.Lines /\ ~(lastOp' = "enter" /\ v.Follow)) =>
           /\ lastOp' = "append"
           /\ followCh # <<>>
           /\ followCh' = Tail(followCh)
           /\ v'.Lines = v.Lines \o Head(followCh).lines]_vars

\* Return in a follow session has added a line that no producer sent
C37_EnterAddsLine ==
    /\ lastOp = "enter"
    /\ v.Follow
    /\ JustHandled
    /\ tail.nsent = 0
    /\ Len(v.Lines) = 3

\* batch n waits in the channel
Queued(n) == \E i \in 1..Len(followCh) : followCh[i].seq = n

\* batch n has been applied by appendLines
Applied(n) == \E i \in 1..Len(tail.recv) : tail.recv[i] = n

\* a batch leaves the channel only in a step of the main loop whose ReadByte found
\* nothing to read, outside the prompt
DrainedWhenIdle ==
    [][tail'.recv # tail.recv =>
           /\ pc = "read"
           /\ ~v.InPrompt
           /\ eng.stdin = <<>>
           /\ Len(tail'.recv) = Len(tail.recv) + 1
           /\ v'.Lines = v.Lines \o Head(followCh).lines
           /\ dirty']_vars

\* the session is never quit, the prompt is never open for ever, and again and again
\* a ReadByte of the main loop finds no input
LoopStaysIdle ==
    /\ [](pc \notin {"done", "panic"})
    /\ []<>(pc # "prompt")
    /\ []<><<PromptDrain \/ PromptIdle>>_vars

\* C38: a batch is taken from the channel only when a key read of the main loop finds
\* no input, outside the prompt; and if the session is not quit, the prompt does not
\* stay open for ever and the keyboard is idle again and again, every batch the
\* producer puts into the channel is in the end applied by appendLines and the screen
\* redrawn after it.
C38_FollowLive ==
    /\ DrainedWhenIdle
    /\ LoopStaysIdle =>
           \A n \in 1..MaxLines : Queued(n) ~> (Applied(n) /\ iter.drawn /\ ~dirty)

\* without the three assumptions
C38_FollowLiveAlways ==
    \A n \in 1..MaxLines : Queued(n) ~> (Applied(n) /\ iter.drawn /\ ~dirty)

\* a batch sent while the prompt was open has been applied and drawn after the prompt
\* was left
C38_Witness ==
    /\ Len(tail.recv) > 0
    /\ eng.typed > 1
    /\ lastOp = "draw"
    /\ iter.drawn
    /\ ~dirty
    /\ followCh = <<>>

\* C39: after every word motion, whichever branch it took, GoalCol equals CursorCol.
C39_WordMotionSetsGoal ==
    (JustHandled /\ lastOp \in {"w", "b", "e"}) => v.GoalCol = v.CursorCol


\* C40: each of the three word motions returns, whatever the document and the valid
\* cursor position it starts from, and until then reads only lines of the document
\* and only runes of the line it scans.
C40_WordScanInBounds ==
    eng.done =>
        /\ eng.scan.ends
        /\ eng.scan.state = v
        /\ \A i \in eng.scan.lines : i >= 0 /\ i < Len(v.Lines)
        /\ \A r \in eng.scan.runes :
               /\ r[1] \in eng.scan.lines
               /\ r[2] >= 0
               /\ r[2] < Len(v.Lines[r[1] + 1])

\* a motion went through an empty line and a line without a word rune to a word on a
\* third line
C40_Witness ==
    /\ eng.done
    /\ Cardinality(eng.scan.lines) = 3
    /\ \E i \in eng.scan.lines : v.Lines[i + 1] = <<>>
    /\ \E i \in eng.scan.lines :
           /\ v.Lines[i + 1] # <<>>
           /\ \A k \in 1..Len(v.Lines[i + 1]) : ~isWordRune(v.Lines[i + 1][k])
    /\ v.Lines[v.Cursor + 1] # <<>>
    /\ isWordRune(v.Lines[v.Cursor + 1][v.CursorCol + 1])

\* a motion on a document of one line without a word rune
C40_WitnessOneLine ==
    /\ eng.done
    /\ Len(v.Lines) = 1
    /\ Len(v.Lines[1]) = 3
    /\ \A k \in 1..3 : ~isWordRune(v.Lines[1][k])
    /\ eng.scan.runes # {}

SpanSet == {eng.spans[i] : i \in 1..Len(eng.spans)}

Overlap(a, b) == a.start < b.end /\ b.start < a.end

\* the non-empty matches of rule number r on the line
Candidates(r) ==
    LET all == FindAllStringIndex(eng.line, eng.rules[r].Regex)
    IN {all[i] : i \in {j \in 1..Len(all) : all[j].start < all[j].end}}

ActiveRules == {r \in 1..Len(eng.rules) : eng.rules[r].Enabled /\ eng.rules[r].Regex # <<>>}

IsAccepted(r, c) == \E sp \in SpanSet : sp.rule = r /\ sp.start = c.start /\ sp.end = c.end

\* the spans accepted before the match c of rule r is looked at
AcceptedBefore(r, c) ==
    {sp \in SpanSet : sp.rule < r \/ (sp.rule = r /\ sp.start < c.start)}

\* C2: with the rules taken in list order, a non-empty match of an enabled rule is
\* accepted exactly when it shares no byte with a match accepted before it; every
\* accepted span is such a match, and no two accepted spans overlap.
C2_FirstClaimWins ==
    eng.done =>
        /\ \A r \in ActiveRules : \A c \in Candidates(r) :
               IsAccepted(r, c) <=> ~\E sp \in AcceptedBefore(r, c) : Overlap(sp, c)
        /\ \A sp \in SpanSet :
               sp.rule \in ActiveRules /\ posRange(sp.start, sp.end) \in Candidates(sp.rule)
        /\ \A a \in SpanSet, b \in SpanSet : a # b => ~Overlap(a, b)

\* a longer match of a later rule was rejected for overlapping an accepted one, and a
\* match of a later rule that overlaps nothing was accepted
C2_Witness ==
    /\ eng.done
    /\ \E r \in ActiveRules : \E c \in Candidates(r) :
           /\ ~IsAccepted(r, c)
           /\ \E sp \in SpanSet : sp.rule < r /\ Overlap(sp, c)
                                     /\ c.end - c.start > sp.end - sp.start
    /\ \E sp \in SpanSet : sp.rule > 1 /\ \E first \in SpanSet : first.rule = 1

\* the running numbers of the batches in the channel, oldest first
ChanSeqs == [i \in 1..Len(followCh) |-> followCh[i].seq]

\* C4: the channel never holds more than its capacity; the batches received so far
\* followed by the batches in the channel are the batches sent, in the order sent,
\* each once and each with the line it was sent with; so a producer that finds the
\* channel full has dropped and overwritten nothing.
C4_ChannelBounded ==
    /\ Len(followCh) <= ChanCap
    /\ tail.recv \o ChanSeqs = [i \in 1..tail.nsent |-> i]
    /\ \A i \in 1..Len(followCh) : followCh[i].lines = <<tail.sent[followCh[i].seq]>>

\* the producer holds a line while the channel is full, after the loop drained some
C4_Witness ==
    /\ Len(followCh) = ChanCap
    /\ tail.pos = "send"
    /\ Len(tail.recv) > 0

RECURSIVE SplitLines(_)
\* the complete lines of data, each without its newline and one carriage return
SplitLines(data) ==
    IF FirstNL(data) = 0 THEN <<>>
    ELSE <<TrimSuffix(SubSeq(data, 1, FirstNL(data) - 1), CR)>>
             \o SplitLines(SubSeq(data, FirstNL(data) + 1, Len(data)))

IsPrefix(p, q) == Len(p) <= Len(q) /\ \A i \in 1..Len(p) : p[i] = q[i]

\* C5: the lines the producer has pushed are, in order, the complete lines written to
\* the file since the initial read, each with all its bytes.
C5_TailNoLoss == IsPrefix(tail.sent, SplitLines(tail.wrote))

\* C6: a loop iteration drains at most one batch, and whenever the loop reads or
\* polls for input the screen has been redrawn since the last state change and
\* since the last batch was applied.
C6_LoopOrder ==
    /\ iter.drained <= 1
    /\ pc = "read" => (~dirty /\ iter.drawn)

\* a second batch is pending while the loop, having applied and redrawn the first,
\* is about to read
C6_Witness ==
    /\ pc = "read"
    /\ lastOp = "draw"
    /\ Len(tail.recv) > 0
    /\ Len(followCh) > 0

====
